---- MODULE Spec2Model ----
(***************************************************************************)
(* Verification-code issuer/verifier (VerificationService) and            *)
(* notification dispatcher (NotificationService) of candi-tracker-api.    *)
(*                                                                         *)
(* Time is wall-clock time in whole minutes.  One service call is one     *)
(* action: under the sequential reading every `new Date()` / `Date.now()`  *)
(* of a call sees the same instant `now`.  The persistence store is taken  *)
(* to work (no Prisma exception); the outbound senders may fail.           *)
(***************************************************************************)
EXTENDS Integers, Sequences, FiniteSets, TLC

VARIABLES
    now,                   \* the wall clock, minutes
    verificationCodes,     \* table verification_codes
    verificationAttempts,  \* table verification_attempts
    smsClient,             \* NotificationService.smsClient: is Twilio configured
    notificationSettings,  \* table notification_settings, by user
    notifications,         \* table notifications
    result,                \* what the last service call was, did and returned
    wrongGuesses,          \* history: per code id, the wrong values submitted while it was valid
    users,                 \* table users, with enabled2FA of user_settings
    interviews,            \* table interviews
    applications,          \* table applications
    response,              \* the HTTP response of the last controller call
    calls,                 \* the createAndSendCode calls in progress, by request
    sent,                  \* history: what the scheduler jobs handed to sendNotification
    passwordChecked        \* history: users whose password a login call has accepted

vars == <<now, verificationCodes, verificationAttempts, smsClient,
          notificationSettings, notifications, result, wrongGuesses,
          users, interviews, applications, response, calls, sent, passwordChecked>>

\* what the two services leave alone: the tables and histories of the
\* controllers, of the scheduler and of the interleaved calls
appVars == <<users, interviews, applications, response, calls, sent, passwordChecked>>

\* what the code issuer/verifier leaves alone
dispatcherVars == <<smsClient, notificationSettings, notifications>>

\* what the notification dispatcher leaves alone
verifierVars == <<now, verificationCodes, verificationAttempts>>

\* row ids handed out so far: the id of a row is its rank of creation, and
\* every authorized call inserts one attempt row (that is never deleted)
nextId == Cardinality(verificationAttempts)

---------------------------------------------------------------------------
(* Bounds of the model *)

MaxRows == 2          \* authorized createAndSendCode calls of one run
MaxTime == 6          \* the clock stops here
MaxResends == 9       \* authorized calls of one run of SpecResend
MaxResendTime == 1570 \* the clock stops here in SpecResend
MaxTTLRows == 1       \* authorized calls of one run of SpecTTL
MaxTTLTime == 1441    \* the clock stops here in SpecTTL
MaxNotifications == 1 \* in-app rows of one run of SpecNotify
MaxCleanupRows == 3   \* authorized calls of one run of SpecCleanup
MaxCleanupTime == 10081 \* the clock stops here in SpecCleanup
MaxAgeRows == 2       \* in-app rows created in one run of SpecAge
MaxAgeTime == 43201   \* the clock stops here in SpecAge
MaxAgeSendTime == 2   \* in-app rows are created before this instant in SpecAge
MaxInAppRows == 2     \* highest row id handed out in SpecInApp
MaxNoSMSRows == 2     \* authorized calls of one run of SpecNoSMS
MaxCalls == 2         \* createAndSendCode calls of one run of SpecRace
MaxInterviews == 1    \* interviews booked in one run of SpecReminders
MaxReminderTime == 1469 \* the latest start of an interview in SpecReminders
MaxApplications == 1  \* applications recorded in one run of SpecFollowUps
MaxFollowUpTime == 30840 \* the last daily job of SpecFollowUps: 10:00, 21 days on
MaxForgotRows == 2    \* authorized calls of one run of SpecForgot
MaxLoginRows == 2     \* authorized calls of one run of SpecLogin
MaxTupleRows == 3     \* authorized calls of one run of SpecTuples
MaxGuessRows == 2     \* authorized calls of one run of SpecGuess

---------------------------------------------------------------------------
(* Enumerations and constants of the program *)

VerificationCodeType ==
    {"EMAIL_VERIFICATION", "PASSWORD_RESET", "TWO_FACTOR_AUTH",
     "PHONE_VERIFICATION", "ACCOUNT_DELETION", "SENSITIVE_ACTION"}

VerificationMethod == {"EMAIL", "SMS"}

RESEND_DELAYS == <<1, 2, 5, 10, 15, 30, 60>>

EXPIRATION_TIMES ==
    [t \in VerificationCodeType |->
        CASE t = "EMAIL_VERIFICATION" -> 60 * 24
          [] t = "PASSWORD_RESET"     -> 15
          [] t = "TWO_FACTOR_AUTH"    -> 5
          [] t = "PHONE_VERIFICATION" -> 10
          [] t = "ACCOUNT_DELETION"   -> 30
          [] t = "SENSITIVE_ACTION"   -> 10]

DefaultMaxAttempts == 5          \* column default of verification_codes.maxAttempts
DayMinutes == 1440               \* 24 * 60 * 60 * 1000 ms
CleanupUsedAfter == 10080        \* 7 * 24 * 60 * 60 * 1000 ms
RandomIntMin == 100000           \* crypto.randomInt(min, max): min inclusive
RandomIntMax == 999999           \*                             max exclusive

NoDate == -1                     \* a null / absent timestamp

MsgWait == "Veuillez attendre avant de renvoyer un code"
MsgSendError == "Erreur lors de l'envoi du code"
MsgSentEmail == "Code envoye par email"
MsgSentSMS == "Code envoye par SMS"
MsgInvalidOrExpired == "Code invalide ou expire"
MsgTooManyAttempts == "Trop de tentatives. Demandez un nouveau code."
MsgVerified == "Code verifie avec succes"

Min(a, b) == IF a <= b THEN a ELSE b

---------------------------------------------------------------------------
(* generateCode: crypto.randomInt(100000, 999999).toString() *)

RECURSIVE Digits(_)
Digits(n) == IF n < 10 THEN <<n>> ELSE Append(Digits(n \div 10), n % 10)

\* Number.prototype.toString: the decimal digits, most significant first
NumberToString(n) == Digits(n)

\* integers the model lets the random source pick among
SampleInts == {99999, 100000, 999998, 999999, 1000000}

RandomInt(lo, hi) == {n \in SampleInts : lo <= n /\ n < hi}

GenerateCode == {NumberToString(n) : n \in RandomInt(RandomIntMin, RandomIntMax)}

\* code strings a caller may submit to verifyCode
SubmittedCodes == GenerateCode

\* the one value the random source gives in the runs that do not turn on it
FixedCode == {NumberToString(RandomIntMin)}

---------------------------------------------------------------------------
(* calculateNextDelay *)

\* mutant: the send being authorized is counted too
CalculateNextDelay_Shifted(attemptCount) ==
    LET delayIndex == Min(attemptCount + 1, Len(RESEND_DELAYS) - 1)
    IN  RESEND_DELAYS[delayIndex + 1]

CalculateNextDelay(attemptCount) ==
    LET delayIndex == Min(attemptCount, Len(RESEND_DELAYS) - 1)
    IN  RESEND_DELAYS[delayIndex + 1]

---------------------------------------------------------------------------
(* Store queries *)

\* mutant: the target is not compared
SameTuple_AnyTarget(a, userId, type, method, target) ==
    /\ a.userId = userId
    /\ a.type = type
    /\ a.method = method

SameTuple(a, userId, type, method, target) ==
    /\ a.userId = userId
    /\ a.type = type
    /\ a.method = method
    /\ a.target = target

\* findFirst({where: {userId, type, method, target}, orderBy: {sentAt: 'desc'}}):
\* the rows the store may return, those with the greatest sentAt (none: {})
LastAttempts(userId, type, method, target) ==
    LET rows == {a \in verificationAttempts : SameTuple(a, userId, type, method, target)}
    IN  {a \in rows : \A b \in rows : b.sentAt <= a.sentAt}

\* mutant: the time of the last send is compared instead of nextAllowedAt
DelayElapsed_SentAt(lastAttempt, t) == t >= lastAttempt.sentAt

\* the test of the cool-down: now >= lastAttempt.nextAllowedAt
DelayElapsed(lastAttempt, t) == t >= lastAttempt.nextAllowedAt

\* canSendCode, given what findFirst returned: found is {} or {the row}
CanSendCodeWith(found, t) ==
    IF found = {} THEN [canSend |-> TRUE, nextAllowedAt |-> NoDate, waitMinutes |-> 0]
    ELSE LET lastAttempt == CHOOSE a \in found : TRUE
         IN  IF DelayElapsed(lastAttempt, t)
             THEN [canSend |-> TRUE, nextAllowedAt |-> NoDate, waitMinutes |-> 0]
             ELSE [canSend |-> FALSE, nextAllowedAt |-> lastAttempt.nextAllowedAt,
                   waitMinutes |-> lastAttempt.nextAllowedAt - t]

\* what findFirst may return
FoundAttempts(userId, type, method, target) ==
    IF LastAttempts(userId, type, method, target) = {}
    THEN {{}}
    ELSE {{a} : a \in LastAttempts(userId, type, method, target)}

\* the results canSendCode may give at the present instant
CanSendCode(userId, type, method, target) ==
    {CanSendCodeWith(found, now) : found \in FoundAttempts(userId, type, method, target)}

\* prisma.verificationAttempt.count({where: {tuple, sentAt: {gte: now - 24h}}})
AttemptCount(userId, type, method, target, t) ==
    Cardinality({a \in verificationAttempts :
                    /\ SameTuple(a, userId, type, method, target)
                    /\ a.sentAt >= t - DayMinutes})

\* mutant: the comparison with the expiry is turned around
IsOldActiveCode_Flipped(c, userId, type, t) ==
    /\ c.userId = userId
    /\ c.type = type
    /\ c.isUsed = FALSE
    /\ c.expiresAt < t

\* the where-clause of the invalidating updateMany
IsOldActiveCode(c, userId, type, t) ==
    /\ c.userId = userId
    /\ c.type = type
    /\ c.isUsed = FALSE
    /\ c.expiresAt > t

\* updateMany({where: ..., data: {isUsed: true}})
InvalidateOldCodes(codes, userId, type, t) ==
    {IF IsOldActiveCode(c, userId, type, t) THEN [c EXCEPT !.isUsed = TRUE] ELSE c
        : c \in codes}

\* mutant: the isUsed filter is missing
IsValidCode_IgnoreUsed(c, userId, code, type, t) ==
    /\ c.userId = userId
    /\ c.code = code
    /\ c.type = type
    /\ c.expiresAt > t

\* mutant: a code is still accepted at the instant it expires
IsValidCode_Inclusive(c, userId, code, type, t) ==
    /\ c.userId = userId
    /\ c.code = code
    /\ c.type = type
    /\ c.isUsed = FALSE
    /\ c.expiresAt >= t

\* mutant: the expiry filter is missing
IsValidCode_IgnoreExpiry(c, userId, code, type, t) ==
    /\ c.userId = userId
    /\ c.code = code
    /\ c.type = type
    /\ c.isUsed = FALSE

\* the where-clause of verifyCode's findFirst
IsValidCode(c, userId, code, type, t) ==
    /\ c.userId = userId
    /\ c.code = code
    /\ c.type = type
    /\ c.isUsed = FALSE
    /\ c.expiresAt > t

\* the rows verifyCode's findFirst may return
ValidCodes(userId, code, type, t) ==
    {c \in verificationCodes : IsValidCode(c, userId, code, type, t)}

\* mutant: every used code is deleted, whatever its age
IsCleanable_AnyUsed(c, t) ==
    \/ c.expiresAt < t
    \/ c.isUsed = TRUE

\* the where-clause of cleanupExpiredCodes' deleteMany
IsCleanable(c, t) ==
    \/ c.expiresAt < t
    \/ (c.isUsed = TRUE /\ c.createdAt < t - CleanupUsedAfter)

---------------------------------------------------------------------------
(* Inputs *)

ExistingUsers == {"u1", "u2"}

NoSettings == [exists |-> FALSE]

\* VerificationCodeData of the calls of Spec
Requests ==
    { [userId |-> "u1", type |-> "TWO_FACTOR_AUTH", method |-> "EMAIL", target |-> "u1@mail"],
      [userId |-> "u1", type |-> "TWO_FACTOR_AUTH", method |-> "SMS",   target |-> "+331"],
      [userId |-> "u2", type |-> "PHONE_VERIFICATION", method |-> "SMS", target |-> "+332"] }

\* one tuple, resent again and again (SpecResend)
ResendRequests ==
    { [userId |-> "u1", type |-> "PASSWORD_RESET", method |-> "EMAIL", target |-> "u1@mail"] }

\* one tuple per kind of code (SpecTTL)
TTLRequests ==
    { [userId |-> "u1", type |-> t, method |-> "EMAIL", target |-> "u1@mail"]
        : t \in VerificationCodeType }

\* two users asking for the code of longest life (SpecCleanup)
CleanupRequests ==
    { [userId |-> u, type |-> "EMAIL_VERIFICATION", method |-> "EMAIL", target |-> "mail"]
        : u \in ExistingUsers }

\* codes asked for by SMS and by email (SpecNoSMS)
SMSRequests ==
    { [userId |-> "u1", type |-> "PHONE_VERIFICATION", method |-> "SMS", target |-> "+331"],
      [userId |-> "u1", type |-> "EMAIL_VERIFICATION", method |-> "EMAIL",
       target |-> "u1@mail"] }

\* (userId, type) pairs verifyCode is called with
VerifyKeys(requests) == {<<r.userId, r.type>> : r \in requests}

\* a row of users: a local account (provider 'local') has a password
User(id, email, password, role, isActive, emailVerified, enabled2FA) ==
    [id |-> id, email |-> email, password |-> password, role |-> role,
     isActive |-> isActive, emailVerified |-> emailVerified, enabled2FA |-> enabled2FA]

\* the accounts the runs of the two services are about
EmailOf == [u1 |-> "u1@mail", u2 |-> "u2@mail"]

InitialUsers ==
    {User(u, EmailOf[u], "secret", "USER", TRUE, TRUE, FALSE) : u \in ExistingUsers}

UserIds == {u.id : u \in users}

NoResponse == [endpoint |-> "none", status |-> 0, code |-> "", body |-> "",
               userId |-> "", email |-> "", token |-> ""]

NoCalls == <<>>

NoResult ==
    [op |-> "none", at |-> NoDate, userId |-> "", type |-> "", method |-> "",
     target |-> "", code |-> <<>>, success |-> FALSE, message |-> "",
     nextAllowedAt |-> NoDate, waitMinutes |-> 0, count |-> 0,
     data |-> "", emails |-> <<>>, sms |-> <<>>, days |-> 0]

---------------------------------------------------------------------------
(* Init *)

\* empty tables; no user has a notification_settings row yet (register
\* creates none)
InitTables ==
    /\ now = 0
    /\ verificationCodes = {}
    /\ verificationAttempts = {}
    /\ notificationSettings = [u \in ExistingUsers |-> NoSettings]
    /\ notifications = {}
    /\ result = NoResult
    /\ wrongGuesses = <<>>
    /\ interviews = {}
    /\ applications = {}
    /\ response = NoResponse
    /\ calls = NoCalls
    /\ sent = {}
    /\ passwordChecked = {}

\* the two accounts exist
InitStore == InitTables /\ users = InitialUsers

\* nobody has registered yet
InitNoUsers == InitTables /\ users = {} /\ smsClient = TRUE

\* a process with the Twilio credentials
Init == InitStore /\ smsClient = TRUE

\* a process with or without the Twilio credentials (createSMSClient)
InitAnyConfig == InitStore /\ smsClient \in BOOLEAN

---------------------------------------------------------------------------
(* createAndSendCode *)

\* the row prisma.verificationCode.create inserts
NewCode(id, data, code, t) ==
    [id |-> id, userId |-> data.userId, code |-> code, type |-> data.type,
     method |-> data.method, target |-> data.target,
     expiresAt |-> t + EXPIRATION_TIMES[data.type],
     usedAt |-> NoDate, attempts |-> 0, maxAttempts |-> DefaultMaxAttempts,
     isUsed |-> FALSE, createdAt |-> t]

\* the row prisma.verificationAttempt.create inserts
NewAttempt(id, data, attemptCount, t) ==
    [id |-> id, userId |-> data.userId, type |-> data.type, method |-> data.method,
     target |-> data.target, sentAt |-> t,
     nextAllowedAt |-> t + CalculateNextDelay(attemptCount)]

\* mutant: an upsert on the tuple instead of a create
InsertAttempt_Upsert(attempts, attempt) ==
    {a \in attempts : ~SameTuple(a, attempt.userId, attempt.type, attempt.method,
                                 attempt.target)} \cup {attempt}

\* prisma.verificationAttempt.create
InsertAttempt(attempts, attempt) == attempts \cup {attempt}

CallResult(op, data) ==
    [NoResult EXCEPT !.op = op, !.at = now, !.userId = data.userId, !.type = data.type,
                     !.method = data.method, !.target = data.target]

\* mutant: the old codes are invalidated before the cool-down is checked
Refuse_Invalidate(data, canSend) ==
    /\ result' = [CallResult("createAndSendCode", data) EXCEPT
                     !.success = FALSE, !.message = MsgWait,
                     !.nextAllowedAt = canSend.nextAllowedAt,
                     !.waitMinutes = canSend.waitMinutes]
    /\ verificationCodes' =
          InvalidateOldCodes(verificationCodes, data.userId, data.type, now)
    /\ UNCHANGED <<now, verificationAttempts, dispatcherVars>>

\* the early return of a call that canSendCode refuses
Refuse(data, canSend) ==
    /\ result' = [CallResult("createAndSendCode", data) EXCEPT
                     !.success = FALSE, !.message = MsgWait,
                     !.nextAllowedAt = canSend.nextAllowedAt,
                     !.waitMinutes = canSend.waitMinutes]
    /\ UNCHANGED <<now, verificationCodes, verificationAttempts, dispatcherVars>>

\* the rest of the call: count, invalidate, create the code, create the attempt, send
Authorize(data, code, sendResult) ==
    LET attemptCount == AttemptCount(data.userId, data.type, data.method, data.target, now)
        attempt == NewAttempt(nextId + 1, data, attemptCount, now)
    IN  /\ verificationCodes' =
              InvalidateOldCodes(verificationCodes, data.userId, data.type, now)
                 \cup {NewCode(nextId + 1, data, code, now)}
        /\ verificationAttempts' = InsertAttempt(verificationAttempts, attempt)
        /\ result' = [CallResult("createAndSendCode", data) EXCEPT
                         !.code = code,
                         !.success = sendResult,
                         !.message = IF ~sendResult THEN MsgSendError
                                     ELSE IF data.method = "EMAIL" THEN MsgSentEmail
                                     ELSE MsgSentSMS,
                         !.nextAllowedAt = IF sendResult THEN attempt.nextAllowedAt
                                           ELSE NoDate]
        /\ UNCHANGED <<now, dispatcherVars>>

\* mutant: the client is used without looking whether there is one
SendSMS_NoClientCheck(delivered) == delivered

\* NotificationService.sendSMS: false without a client, else what Twilio does
SendSMS(delivered) == smsClient /\ delivered

\* sendCode: false when the transmission fails or throws
SendCode(data, delivered) ==
    IF data.method = "EMAIL" THEN delivered
    ELSE IF data.method = "SMS" THEN SendSMS(delivered)
    ELSE FALSE

\* delivered: whether the outbound transmission works
CreateAndSendCode(data, code, delivered) ==
    \E canSend \in CanSendCode(data.userId, data.type, data.method, data.target) :
        IF ~canSend.canSend
        THEN Refuse(data, canSend)
        ELSE Authorize(data, code, SendCode(data, delivered))

---------------------------------------------------------------------------
(* verifyCode *)

\* mutant: the code is not marked used
MarkVerified_NotUsed(verificationCode, t) ==
    [verificationCode EXCEPT !.attempts = @ + 1, !.usedAt = t]

\* mutant: the counter jumps past the limit
MarkVerified_OverCount(verificationCode, t) ==
    [verificationCode EXCEPT !.attempts = @ + verificationCode.maxAttempts + 1,
                             !.isUsed = TRUE, !.usedAt = t]

\* the update of a successful verification
MarkVerified(verificationCode, t) ==
    [verificationCode EXCEPT !.attempts = @ + 1, !.isUsed = TRUE, !.usedAt = t]

VerifyCode(userId, code, type) ==
    LET res == [NoResult EXCEPT !.op = "verifyCode", !.at = now, !.userId = userId,
                                !.type = type, !.code = code]
    IN  IF ValidCodes(userId, code, type, now) = {}
        THEN /\ result' = [res EXCEPT !.success = FALSE, !.message = MsgInvalidOrExpired]
             /\ UNCHANGED <<now, verificationCodes, verificationAttempts, dispatcherVars>>
        ELSE \E verificationCode \in ValidCodes(userId, code, type, now) :
               /\ IF verificationCode.attempts >= verificationCode.maxAttempts
                  THEN /\ verificationCodes' =
                             (verificationCodes \ {verificationCode})
                                \cup {[verificationCode EXCEPT !.isUsed = TRUE]}
                       /\ result' = [res EXCEPT !.success = FALSE,
                                                !.message = MsgTooManyAttempts]
                  ELSE /\ verificationCodes' =
                             (verificationCodes \ {verificationCode})
                                \cup {MarkVerified(verificationCode, now)}
                       /\ result' = [res EXCEPT !.success = TRUE, !.message = MsgVerified]
               /\ UNCHANGED <<now, verificationAttempts, dispatcherVars>>

---------------------------------------------------------------------------
(* cleanupExpiredCodes *)

CleanupExpiredCodes ==
    LET gone == {c \in verificationCodes : IsCleanable(c, now)}
    IN  /\ verificationCodes' = verificationCodes \ gone
        /\ result' = [NoResult EXCEPT !.op = "cleanupExpiredCodes", !.at = now,
                                      !.count = Cardinality(gone)]
        /\ UNCHANGED <<now, verificationAttempts, dispatcherVars>>

---------------------------------------------------------------------------
(* The clock.  It moves to an instant at which some comparison of the      *)
(* service changes its outcome.                                            *)

\* expiresAt > now (verifyCode, updateMany) and expiresAt < now (cleanup)
ExpiryPoints ==
    UNION {{c.expiresAt, c.expiresAt + 1} : c \in verificationCodes}

\* the last minute before a code expires
LastValidPoints == {c.expiresAt - 1 : c \in verificationCodes}

\* now >= nextAllowedAt (canSendCode)
CoolDownPoints == {a.nextAllowedAt : a \in verificationAttempts}

\* sentAt >= now - 24h (the count of the attempts)
WindowPoints ==
    UNION {{a.sentAt + DayMinutes, a.sentAt + DayMinutes + 1} : a \in verificationAttempts}

\* createdAt < now - 7 days (cleanupExpiredCodes)
WeekPoints ==
    UNION {{a.sentAt + CleanupUsedAfter, a.sentAt + CleanupUsedAfter + 1}
              : a \in verificationAttempts}

\* two hours after a send, and one hour after an expiry
HourPoints ==
    {a.sentAt + 120 : a \in verificationAttempts}
        \cup {c.expiresAt + 60 : c \in verificationCodes}

Tick(t) ==
    /\ t > now
    /\ now' = t
    /\ UNCHANGED <<verificationCodes, verificationAttempts, result, dispatcherVars>>

---------------------------------------------------------------------------
(* Notification dispatcher *)

NotificationType ==
    {"INTERVIEW_REMINDER", "APPLICATION_FOLLOW_UP", "DEADLINE_ALERT", "STATUS_UPDATE",
     "WEEKLY_REPORT", "SYSTEM_NOTIFICATION", "ACHIEVEMENT"}

NoPhone == ""

\* the rows a user may have in notification_settings
Settings ==
    [exists : {TRUE},
     emailEnabled : BOOLEAN, smsEnabled : BOOLEAN, pushEnabled : BOOLEAN,
     interviewReminders : BOOLEAN, applicationFollowUps : BOOLEAN,
     weeklyReports : BOOLEAN, deadlineAlerts : BOOLEAN, statusUpdates : BOOLEAN,
     phoneNumber : {NoPhone, "+331"},
     reminderTiming1 : {1440}, reminderTiming2 : {60}, reminderTiming3 : {15}]

\* the `data` argument: absent, or an object with the key of that name, or
\* an object of plain fields (company, position, ...) without any of the three
NotificationData == {"undefined", "fields", "interview", "application", "stats"}

\* data?.key
HasKey(data, key) == data = key

\* isNotificationTypeEnabled without the DEADLINE_ALERT case
IsNotificationTypeEnabled_NoDeadline(type, settings) ==
    IF ~settings.exists THEN TRUE
    ELSE CASE type = "INTERVIEW_REMINDER"    -> settings.interviewReminders
           [] type = "APPLICATION_FOLLOW_UP" -> settings.applicationFollowUps
           [] type = "WEEKLY_REPORT"         -> settings.weeklyReports
           [] type = "STATUS_UPDATE"         -> settings.statusUpdates
           [] OTHER                          -> TRUE

\* isNotificationTypeEnabled
IsNotificationTypeEnabled(type, settings) ==
    IF ~settings.exists THEN TRUE
    ELSE CASE type = "INTERVIEW_REMINDER"    -> settings.interviewReminders
           [] type = "APPLICATION_FOLLOW_UP" -> settings.applicationFollowUps
           [] type = "WEEKLY_REPORT"         -> settings.weeklyReports
           [] type = "DEADLINE_ALERT"        -> settings.deadlineAlerts
           [] type = "STATUS_UPDATE"         -> settings.statusUpdates
           [] OTHER                          -> TRUE

\* shouldSendEmail with DEADLINE_ALERT among the emailed types
ShouldSendEmail_Deadline(type) ==
    type \in {"WEEKLY_REPORT", "APPLICATION_FOLLOW_UP", "INTERVIEW_REMINDER",
              "STATUS_UPDATE", "SYSTEM_NOTIFICATION", "DEADLINE_ALERT"}

\* shouldSendEmail
ShouldSendEmail(type) ==
    LET emailOnlyTypes == {"WEEKLY_REPORT", "APPLICATION_FOLLOW_UP"}
        alwaysEmailTypes == {"INTERVIEW_REMINDER", "STATUS_UPDATE", "SYSTEM_NOTIFICATION"}
    IN  type \in emailOnlyTypes \/ type \in alwaysEmailTypes

\* shouldSendSMS with WEEKLY_REPORT among the SMS types
ShouldSendSMS_Weekly(type) ==
    type \in {"INTERVIEW_REMINDER", "DEADLINE_ALERT", "WEEKLY_REPORT"}

\* shouldSendSMS
ShouldSendSMS(type) ==
    LET smsOnlyTypes == {"INTERVIEW_REMINDER", "DEADLINE_ALERT"}
    IN  type \in smsOnlyTypes

\* sendEmailForType: the calls it makes to the email sender (emailService);
\* an exception on the way (data.title of an absent data) is caught and logged
SendEmailForType(type, userId, data) ==
    CASE type = "INTERVIEW_REMINDER" ->
            IF HasKey(data, "interview")
            THEN <<[to |-> userId, template |-> "interviewReminder"]>> ELSE <<>>
      [] type = "APPLICATION_FOLLOW_UP" ->
            IF HasKey(data, "application")
            THEN <<[to |-> userId, template |-> "applicationFollowUp"]>> ELSE <<>>
      [] type = "WEEKLY_REPORT" ->
            IF HasKey(data, "stats")
            THEN <<[to |-> userId, template |-> "weeklyReport"]>> ELSE <<>>
      [] type \in {"STATUS_UPDATE", "DEADLINE_ALERT", "SYSTEM_NOTIFICATION", "ACHIEVEMENT"} ->
            IF data = "undefined"
            THEN <<>>
            ELSE <<[to |-> userId, template |-> "generic"]>>
      [] OTHER -> <<>>

\* the row createInternalNotification inserts
NewNotification(id, userId, type, t) ==
    [id |-> id, userId |-> userId, type |-> type, isRead |-> FALSE, createdAt |-> t]

\* a fresh row id: the rank of creation among the rows still stored
NextNotificationId ==
    IF notifications = {} THEN 1
    ELSE 1 + (CHOOSE i \in {n.id : n \in notifications} :
                 \A n \in notifications : n.id <= i)

\* mutant: the in-app row is created whatever pushEnabled is
WantsInApp_Always(settings) == TRUE

\* the in-app step of sendNotification
WantsInApp(settings) == ~settings.exists \/ settings.pushEnabled

\* the email step of sendNotification
WantsEmail(type, settings) ==
    settings.exists /\ settings.emailEnabled /\ ShouldSendEmail(type)

\* the SMS step of sendNotification (the rendered message is never empty)
WantsSMS(type, settings) ==
    /\ settings.exists /\ settings.smsEnabled
    /\ settings.phoneNumber # NoPhone
    /\ ShouldSendSMS(type)

DispatchResult(userId, type, data) ==
    [NoResult EXCEPT !.op = "sendNotification", !.at = now, !.userId = userId,
                     !.type = type, !.data = data]

\* sendNotification; created: prisma.notification.create works (when it throws,
\* the outer catch ends the call)
SendNotification(userId, type, data, created) ==
    IF userId \notin UserIds
    THEN /\ result' = DispatchResult(userId, type, data)
         /\ UNCHANGED <<verifierVars, dispatcherVars>>
    ELSE LET settings == notificationSettings[userId]
         IN  IF ~IsNotificationTypeEnabled(type, settings)
             THEN /\ result' = DispatchResult(userId, type, data)
                  /\ UNCHANGED <<verifierVars, dispatcherVars>>
             ELSE IF WantsInApp(settings) /\ ~created
             THEN /\ result' = [DispatchResult(userId, type, data) EXCEPT
                                   !.message = "Erreur lors de l'envoi de notification"]
                  /\ UNCHANGED <<verifierVars, dispatcherVars>>
             ELSE /\ notifications' =
                        IF WantsInApp(settings)
                        THEN notifications \cup
                                {NewNotification(NextNotificationId, userId, type, now)}
                        ELSE notifications
                  /\ result' = [DispatchResult(userId, type, data) EXCEPT
                                   !.emails = IF WantsEmail(type, settings)
                                              THEN SendEmailForType(type, userId, data)
                                              ELSE <<>>,
                                   !.sms = IF WantsSMS(type, settings)
                                           THEN <<[to |-> settings.phoneNumber,
                                                   client |-> smsClient]>>
                                           ELSE <<>>]
                  /\ UNCHANGED <<verifierVars, smsClient, notificationSettings>>

\* updateNotificationSettings: the upsert leaves the user with the row `settings`
UpdateNotificationSettings(userId, settings) ==
    /\ notificationSettings' = [notificationSettings EXCEPT ![userId] = settings]
    /\ result' = [NoResult EXCEPT !.op = "updateNotificationSettings", !.at = now,
                                  !.userId = userId]
    /\ UNCHANGED <<verifierVars, smsClient, notifications>>

\* markAsRead
MarkAsRead(userId, notificationId) ==
    LET found == {n \in notifications : n.id = notificationId /\ n.userId = userId}
        res == [NoResult EXCEPT !.op = "markAsRead", !.at = now, !.userId = userId,
                                !.count = notificationId]
    IN  /\ notifications' =
              (notifications \ found)
                 \cup {[n EXCEPT !.isRead = TRUE] : n \in found}
        /\ result' = [res EXCEPT !.success = (found # {})]
        /\ UNCHANGED <<verifierVars, smsClient, notificationSettings>>

\* markAllAsRead
MarkAllAsRead(userId) ==
    LET unread == {n \in notifications : n.userId = userId /\ n.isRead = FALSE}
    IN  /\ notifications' =
              (notifications \ unread) \cup {[n EXCEPT !.isRead = TRUE] : n \in unread}
        /\ result' = [NoResult EXCEPT !.op = "markAllAsRead", !.at = now,
                                      !.userId = userId, !.count = Cardinality(unread)]
        /\ UNCHANGED <<verifierVars, smsClient, notificationSettings>>

\* deleteNotification
DeleteNotification(userId, notificationId) ==
    LET gone == {n \in notifications : n.id = notificationId /\ n.userId = userId}
    IN  /\ notifications' = notifications \ gone
        /\ result' = [NoResult EXCEPT !.op = "deleteNotification", !.at = now,
                                      !.userId = userId, !.count = notificationId,
                                      !.success = (Cardinality(gone) > 0)]
        /\ UNCHANGED <<verifierVars, smsClient, notificationSettings>>

\* cutoffDate.setDate(cutoffDate.getDate() - olderThanDays), in minutes
CutoffDate(t, olderThanDays) == t - olderThanDays * DayMinutes

\* mutant: the isRead filter is missing
IsOldNotification_Unread(n, userId, cutoffDate) ==
    /\ n.userId = userId
    /\ n.createdAt < cutoffDate

\* the where-clause of cleanupOldNotifications' deleteMany
IsOldNotification(n, userId, cutoffDate) ==
    /\ n.userId = userId
    /\ n.createdAt < cutoffDate
    /\ n.isRead = TRUE

\* cleanupOldNotifications
CleanupOldNotifications(userId, olderThanDays) ==
    LET cutoffDate == CutoffDate(now, olderThanDays)
        gone == {n \in notifications : IsOldNotification(n, userId, cutoffDate)}
    IN  /\ notifications' = notifications \ gone
        /\ result' = [NoResult EXCEPT !.op = "cleanupOldNotifications", !.at = now,
                                      !.userId = userId, !.days = olderThanDays,
                                      !.count = Cardinality(gone)]
        /\ UNCHANGED <<verifierVars, smsClient, notificationSettings>>

\* the clock of the dispatcher: the minute after a row was created, and the
\* instants at which createdAt < cutoffDate changes its outcome
AgePoints(days) ==
    {n.createdAt + 1 : n \in notifications}
       \cup UNION {{n.createdAt + d * DayMinutes, n.createdAt + d * DayMinutes + 1}
                      : n \in notifications, d \in days}

TickAge(t) ==
    /\ t > now
    /\ now' = t
    /\ UNCHANGED <<verificationCodes, verificationAttempts, result, dispatcherVars>>

---------------------------------------------------------------------------
(* Auth controller: register                                               *)

\* an HTTP response of the auth controller
Respond(endpoint, status, code, body, userId, email, token) ==
    [endpoint |-> endpoint, status |-> status, code |-> code, body |-> body,
     userId |-> userId, email |-> email, token |-> token]

\* findUnique({where: {email}}): the account of that address, if any
UsersByEmail(email) == {u \in users : u.email = email}

\* what a controller call leaves alone besides the tables it writes
controllerFrame == <<interviews, applications, calls, sent, wrongGuesses>>

\* register: 409 for a known address; else the users row and the
\* user_settings row (enabled2FA false) are created, the email-verification
\* code is created and sent, and the answer is 201 whatever the sending did.
\* No notification_settings row is written.
Register(id, email, password, code, delivered) ==
    IF UsersByEmail(email) # {}
    THEN /\ response' = Respond("register", 409, "EMAIL_ALREADY_EXISTS",
                                "Un compte avec cet email existe deja", "", "", "")
         /\ UNCHANGED <<verifierVars, dispatcherVars, result, users, passwordChecked,
                        controllerFrame>>
    ELSE /\ id \notin UserIds
         /\ users' = users \cup {User(id, email, password, "USER", TRUE, FALSE, FALSE)}
         /\ CreateAndSendCode([userId |-> id, type |-> "EMAIL_VERIFICATION",
                               method |-> "EMAIL", target |-> email], code, delivered)
         /\ response' = Respond("register", 201, "",
                                "Compte cree avec succes. Veuillez verifier votre email.",
                                id, email, "")
         /\ UNCHANGED <<passwordChecked, controllerFrame>>

---------------------------------------------------------------------------
(* Auth controller: login, verify2FA, resendVerificationCode, forgotPassword *)

\* generateToken(user.id, user.email, user.role): the token names its user
Token(user) == user.id

\* userService.updateUserSettings: the upsert of user_settings
UpdateUserSettings(userId, enabled2FA) ==
    /\ userId \in UserIds
    /\ users' = {IF u.id = userId THEN [u EXCEPT !.enabled2FA = enabled2FA] ELSE u
                    : u \in users}
    /\ result' = [NoResult EXCEPT !.op = "updateUserSettings", !.at = now,
                                  !.userId = userId]
    /\ UNCHANGED <<verifierVars, dispatcherVars, response, passwordChecked,
                   controllerFrame>>

\* a login call that ends before any store write
LoginRefused(status, code, body) ==
    /\ response' = Respond("login", status, code, body, "", "", "")
    /\ UNCHANGED <<verifierVars, dispatcherVars, result, users, passwordChecked,
                   controllerFrame>>

\* login: unknown address, disabled account, social account, wrong password;
\* then the email-verification detour, the 2FA detour (a code, no token), or
\* the token
Login(email, password, code, delivered) ==
    IF UsersByEmail(email) = {}
    THEN LoginRefused(401, "INVALID_CREDENTIALS", "Email ou mot de passe incorrect")
    ELSE LET user == CHOOSE u \in UsersByEmail(email) : TRUE
         IN  IF ~user.isActive
             THEN LoginRefused(403, "ACCOUNT_DISABLED", "Compte desactive")
             ELSE IF user.password = ""
             THEN LoginRefused(400, "SOCIAL_ACCOUNT_ONLY", "Ce compte utilise une connexion sociale")
             ELSE IF user.password # password
             THEN LoginRefused(401, "INVALID_CREDENTIALS", "Email ou mot de passe incorrect")
             ELSE /\ passwordChecked' = passwordChecked \cup {user.id}
                  /\ UNCHANGED <<users, controllerFrame>>
                  /\ IF ~user.emailVerified
                     THEN /\ CreateAndSendCode([userId |-> user.id,
                                                type |-> "EMAIL_VERIFICATION",
                                                method |-> "EMAIL", target |-> user.email],
                                               code, delivered)
                          /\ response' = Respond("login", 403, "EMAIL_NOT_VERIFIED",
                                                 "Email non verifie", user.id, user.email, "")
                     ELSE IF user.enabled2FA
                     THEN /\ CreateAndSendCode([userId |-> user.id,
                                                type |-> "TWO_FACTOR_AUTH",
                                                method |-> "EMAIL", target |-> user.email],
                                               code, delivered)
                          /\ response' = Respond("login", 200, "",
                                                 "Code d'authentification 2FA envoye",
                                                 user.id, user.email, "")
                     ELSE /\ response' = Respond("login", 200, "", "Connexion reussie",
                                                 user.id, user.email, Token(user))
                          /\ UNCHANGED <<verifierVars, dispatcherVars, result>>

\* verify2FA: the token for whoever submits the user's valid TWO_FACTOR_AUTH code
Verify2FA(userId, code) ==
    /\ VerifyCode(userId, code, "TWO_FACTOR_AUTH")
    /\ response' =
          IF ~result'.success
          THEN Respond("verify2FA", 400, "INVALID_2FA_CODE", result'.message, "", "", "")
          ELSE IF userId \notin UserIds
          THEN Respond("verify2FA", 500, "INTERNAL_ERROR", "Erreur interne du serveur",
                       "", "", "")
          ELSE LET user == CHOOSE u \in users : u.id = userId
               IN  Respond("verify2FA", 200, "", "Authentification 2FA reussie",
                           user.id, user.email, Token(user))
    /\ UNCHANGED <<users, passwordChecked, controllerFrame>>

\* the types resendVerificationCode accepts
ResendTypes == {"EMAIL_VERIFICATION", "TWO_FACTOR_AUTH"}

\* resendVerificationCode: for any user id, without authentication
ResendVerificationCode(userId, type, code, delivered) ==
    IF type \notin ResendTypes
    THEN /\ response' = Respond("resendVerificationCode", 400, "INVALID_TYPE",
                                "Type de verification invalide", "", "", "")
         /\ UNCHANGED <<verifierVars, dispatcherVars, result, users, passwordChecked,
                        controllerFrame>>
    ELSE IF userId \notin UserIds
    THEN /\ response' = Respond("resendVerificationCode", 404, "USER_NOT_FOUND",
                                "Utilisateur non trouve", "", "", "")
         /\ UNCHANGED <<verifierVars, dispatcherVars, result, users, passwordChecked,
                        controllerFrame>>
    ELSE LET user == CHOOSE u \in users : u.id = userId
         IN  /\ CreateAndSendCode([userId |-> user.id, type |-> type, method |-> "EMAIL",
                                   target |-> user.email], code, delivered)
             /\ response' =
                   IF result'.success
                   THEN Respond("resendVerificationCode", 200, "",
                                "Code renvoye avec succes", "", "", "")
                   ELSE Respond("resendVerificationCode", 429, "RATE_LIMITED",
                                result'.message, "", "", "")
             /\ UNCHANGED <<users, passwordChecked, controllerFrame>>

\* successResponse: built from the submitted address alone
SuccessResponse(email) ==
    Respond("forgotPassword", 200, "",
            "Si cette adresse email existe dans notre systeme, un code de reinitialisation a ete envoye.",
            "", email, "")

\* mutant: a disabled account is answered as login answers it
DisabledAnswer_AsLogin(email) ==
    Respond("forgotPassword", 403, "ACCOUNT_DISABLED", "Compte desactive", "", email, "")

\* the answer for a disabled account
DisabledAnswer(email) == SuccessResponse(email)

\* forgotPassword: the same answer for an unknown address, a disabled
\* account, and whatever createAndSendCode returns
ForgotPassword(email, code, delivered) ==
    IF UsersByEmail(email) = {}
    THEN /\ response' = SuccessResponse(email)
         /\ UNCHANGED <<verifierVars, dispatcherVars, result, users, passwordChecked,
                        controllerFrame>>
    ELSE LET user == CHOOSE u \in UsersByEmail(email) : TRUE
         IN  IF ~user.isActive
             THEN /\ response' = DisabledAnswer(email)
                  /\ UNCHANGED <<verifierVars, dispatcherVars, result, users,
                                 passwordChecked, controllerFrame>>
             ELSE /\ CreateAndSendCode([userId |-> user.id, type |-> "PASSWORD_RESET",
                                        method |-> "EMAIL", target |-> user.email],
                                       code, delivered)
                  /\ response' = SuccessResponse(email)
                  /\ UNCHANGED <<users, passwordChecked, controllerFrame>>

---------------------------------------------------------------------------
(* AdminService                                                            *)

UserRole == {"USER", "ADMIN"}

\* what an admin operation leaves alone when it deletes nothing
adminFrame ==
    <<now, verificationCodes, verificationAttempts, smsClient, notificationSettings,
      notifications, wrongGuesses, interviews, applications, response, calls, sent,
      passwordChecked>>

AdminResult(op, userId, success, message) ==
    [NoResult EXCEPT !.op = op, !.at = now, !.userId = userId, !.success = success,
                     !.message = message]

\* the operation throws: nothing is written
AdminError(op, userId, message) ==
    /\ result' = AdminResult(op, userId, FALSE, message)
    /\ UNCHANGED <<users, adminFrame>>

\* prisma.user.count({where: {role: ADMIN}})
AdminCount(rows) == Cardinality({u \in rows : u.role = "ADMIN"})

\* prisma.user.count({where: {role: ADMIN, isActive: true}})
ActiveAdminCount(rows) == Cardinality({u \in rows : u.role = "ADMIN" /\ u.isActive})

\* prisma.user.delete / deleteMany with the ON DELETE CASCADE foreign keys
DeleteUsers(userIds) ==
    /\ users' = {u \in users : u.id \notin userIds}
    /\ verificationCodes' = {c \in verificationCodes : c.userId \notin userIds}
    /\ verificationAttempts' = {a \in verificationAttempts : a.userId \notin userIds}
    /\ notifications' = {n \in notifications : n.userId \notin userIds}
    /\ notificationSettings' = [u \in DOMAIN notificationSettings |->
                                   IF u \in userIds THEN NoSettings
                                   ELSE notificationSettings[u]]
    /\ applications' = {a \in applications : a.userId \notin userIds}
    /\ interviews' = {i \in interviews : i.userId \notin userIds}
    /\ UNCHANGED <<now, smsClient, wrongGuesses, response, calls, sent, passwordChecked>>

DeleteUser(userId) ==
    IF userId \notin UserIds
    THEN AdminError("deleteUser", userId, "USER_NOT_FOUND")
    ELSE LET user == CHOOSE u \in users : u.id = userId
         IN  IF user.role = "ADMIN" /\ AdminCount(users) <= 1
             THEN AdminError("deleteUser", userId, "CANNOT_DELETE_LAST_ADMIN")
             ELSE /\ DeleteUsers({userId})
                  /\ result' = AdminResult("deleteUser", userId, TRUE, "")

ChangeUserRole(userId, newRole) ==
    IF userId \notin UserIds
    THEN AdminError("changeUserRole", userId, "USER_NOT_FOUND")
    ELSE LET user == CHOOSE u \in users : u.id = userId
         IN  IF user.role = "ADMIN" /\ newRole # "ADMIN" /\ AdminCount(users) <= 1
             THEN AdminError("changeUserRole", userId, "CANNOT_REMOVE_LAST_ADMIN")
             ELSE /\ users' = {IF u.id = userId THEN [u EXCEPT !.role = newRole] ELSE u
                                  : u \in users}
                  /\ result' = AdminResult("changeUserRole", userId, TRUE, "")
                  /\ UNCHANGED adminFrame

ToggleUserStatus(userId, isActive) ==
    IF userId \notin UserIds
    THEN AdminError("toggleUserStatus", userId, "USER_NOT_FOUND")
    ELSE LET user == CHOOSE u \in users : u.id = userId
         IN  IF user.role = "ADMIN" /\ ~isActive /\ ActiveAdminCount(users) <= 1
             THEN AdminError("toggleUserStatus", userId, "CANNOT_DEACTIVATE_LAST_ADMIN")
             ELSE /\ users' = {IF u.id = userId THEN [u EXCEPT !.isActive = isActive]
                               ELSE u : u \in users}
                  /\ result' = AdminResult("toggleUserStatus", userId, TRUE, "")
                  /\ UNCHANGED adminFrame

\* the result of bulkUserAction records the number of rows written in `count`
BulkUserAction(userIds, actionType) ==
    LET others == {u \in users : u.id \notin userIds}
        written == Cardinality({u \in users : u.id \in userIds})
        done == [AdminResult("bulkUserAction", "", TRUE, actionType) EXCEPT
                    !.count = written]
    IN  CASE actionType = "activate" ->
               /\ users' = {IF u.id \in userIds THEN [u EXCEPT !.isActive = TRUE] ELSE u
                               : u \in users}
               /\ result' = done
               /\ UNCHANGED adminFrame
          [] actionType = "deactivate" ->
               IF ActiveAdminCount(others) = 0
               THEN AdminError("bulkUserAction", "", "CANNOT_DEACTIVATE_ALL_ADMINS")
               ELSE /\ users' = {IF u.id \in userIds THEN [u EXCEPT !.isActive = FALSE]
                                 ELSE u : u \in users}
                    /\ result' = done
                    /\ UNCHANGED adminFrame
          [] actionType = "delete" ->
               IF AdminCount(others) = 0
               THEN AdminError("bulkUserAction", "", "CANNOT_DELETE_ALL_ADMINS")
               ELSE /\ DeleteUsers(userIds)
                    /\ result' = done
          [] OTHER -> AdminError("bulkUserAction", "", "INVALID_ACTION")

---------------------------------------------------------------------------
(* createAndSendCode, one awaited store operation at a time                *)

\* what a step of an interleaved call leaves alone besides the two tables
callFrame ==
    <<smsClient, notificationSettings, notifications, wrongGuesses, users, interviews,
      applications, response, sent, passwordChecked>>

\* the local variables of a call in progress; `seen` and `codeId` are
\* history: the code rows its updateMany ran over, and the row it created
Call(data, code, canSend) ==
    [data |-> data, code |-> code, at |-> now,
     pc |-> IF canSend.canSend THEN "count" ELSE "done",
     authorized |-> canSend.canSend,
     attemptCount |-> 0, seen |-> {}, codeId |-> 0, nextAllowedAt |-> NoDate]

\* the call arrives and awaits canSendCode; refused, it returns at once
BeginCall(data, code) ==
    \E canSend \in CanSendCode(data.userId, data.type, data.method, data.target) :
        /\ calls' = Append(calls, Call(data, code, canSend))
        /\ IF canSend.canSend
           THEN UNCHANGED <<now, verificationCodes, verificationAttempts, result,
                            dispatcherVars>>
           ELSE Refuse(data, canSend)
        /\ UNCHANGED <<wrongGuesses, users, interviews, applications, response, sent,
                       passwordChecked>>

\* await prisma.verificationAttempt.count
CountStep(i) ==
    LET d == calls[i].data
    IN  /\ calls[i].pc = "count"
        /\ calls' = [calls EXCEPT
              ![i].attemptCount = AttemptCount(d.userId, d.type, d.method, d.target, now),
              ![i].pc = "updateMany"]
        /\ UNCHANGED <<now, verificationCodes, verificationAttempts, result, callFrame>>

\* await prisma.verificationCode.updateMany
UpdateManyStep(i) ==
    LET d == calls[i].data
    IN  /\ calls[i].pc = "updateMany"
        /\ verificationCodes' = InvalidateOldCodes(verificationCodes, d.userId, d.type, now)
        /\ calls' = [calls EXCEPT ![i].seen = {c.id : c \in verificationCodes},
                                  ![i].pc = "createCode"]
        /\ UNCHANGED <<now, verificationAttempts, result, callFrame>>

\* mutant: the create re-runs the invalidation in one transaction with the insert
InsertCode_Serialized(codes, row) ==
    InvalidateOldCodes(codes, row.userId, row.type, row.createdAt) \cup {row}

\* prisma.verificationCode.create
InsertCode(codes, row) == codes \cup {row}

\* await prisma.verificationCode.create
CreateCodeStep(i) ==
    LET id == Cardinality(verificationCodes) + 1
    IN  /\ calls[i].pc = "createCode"
        /\ verificationCodes' =
              InsertCode(verificationCodes, NewCode(id, calls[i].data, calls[i].code, now))
        /\ calls' = [calls EXCEPT ![i].codeId = id, ![i].pc = "createAttempt"]
        /\ UNCHANGED <<now, verificationAttempts, result, callFrame>>

\* await prisma.verificationAttempt.create
CreateAttemptStep(i) ==
    LET attempt == NewAttempt(Cardinality(verificationAttempts) + 1, calls[i].data,
                              calls[i].attemptCount, now)
    IN  /\ calls[i].pc = "createAttempt"
        /\ verificationAttempts' = InsertAttempt(verificationAttempts, attempt)
        /\ calls' = [calls EXCEPT ![i].nextAllowedAt = attempt.nextAllowedAt,
                                  ![i].pc = "send"]
        /\ UNCHANGED <<now, verificationCodes, result, callFrame>>

\* await this.sendCode, and the return
SendStep(i, delivered) ==
    LET d == calls[i].data
        sendResult == SendCode(d, delivered)
    IN  /\ calls[i].pc = "send"
        /\ calls' = [calls EXCEPT ![i].pc = "done"]
        /\ result' = [CallResult("createAndSendCode", d) EXCEPT
                         !.code = calls[i].code,
                         !.success = sendResult,
                         !.message = IF ~sendResult THEN MsgSendError
                                     ELSE IF d.method = "EMAIL" THEN MsgSentEmail
                                     ELSE MsgSentSMS,
                         !.nextAllowedAt = IF sendResult THEN calls[i].nextAllowedAt
                                           ELSE NoDate]
        /\ UNCHANGED <<now, verificationCodes, verificationAttempts, callFrame>>

---------------------------------------------------------------------------
(* Scheduler: interview reminders and application follow-ups               *)

CronPeriod == 15            \* cron '*/15 * * * *', minutes
ReminderTolerance == 7      \* Math.abs(minutesUntil - timing) <= 7
FollowUpDays == 7           \* followUpThreshold, daysSince % 7
FollowUpHour == 600         \* cron '0 10 * * *', minutes after midnight

Abs(x) == IF x < 0 THEN 0 - x ELSE x

\* what a scheduler job or a booking leaves alone
schedulerFrame ==
    <<now, verificationCodes, verificationAttempts, smsClient, notificationSettings,
      wrongGuesses, users, response, calls, passwordChecked>>

\* no cron job has run yet
BeforeFirstJob ==
    result.op \notin {"checkInterviewReminders", "checkApplicationFollowUps"}

\* InterviewService.createInterview for an application of the user: refused
\* when the user has an interview at that very time
CreateInterview(userId, scheduledAt) ==
    /\ \A i \in interviews : ~(i.userId = userId /\ i.scheduledAt = scheduledAt)
    /\ interviews' = interviews \cup
          {[id |-> Cardinality(interviews) + 1, userId |-> userId,
            scheduledAt |-> scheduledAt, createdAt |-> now]}
    /\ result' = [NoResult EXCEPT !.op = "createInterview", !.at = now, !.userId = userId]
    /\ UNCHANGED <<schedulerFrame, notifications, applications, sent>>

\* ApplicationService.createApplication; appliedAt is the caller's or new Date()
CreateApplication(userId, status, appliedAt) ==
    /\ applications' = applications \cup
          {[id |-> Cardinality(applications) + 1, userId |-> userId,
            status |-> status, appliedAt |-> appliedAt]}
    /\ result' = [NoResult EXCEPT !.op = "createApplication", !.at = now, !.userId = userId]
    /\ UNCHANGED <<schedulerFrame, notifications, interviews, sent>>

\* a fresh row id for the rows `rows`
NextRowId(rows) ==
    IF rows = {} THEN 1
    ELSE 1 + (CHOOSE i \in {n.id : n \in rows} : \A n \in rows : n.id <= i)

\* the in-app rows after sendNotification has run for each of `due`, in the
\* order of the job's loop (orderBy ascending `key`)
RECURSIVE NotifyAll(_, _, _, _)
NotifyAll(rows, due, type, key) ==
    IF due = {} THEN rows
    ELSE LET first == CHOOSE d \in due : \A e \in due : d[key] <= e[key]
             settings == notificationSettings[first.userId]
             after == IF IsNotificationTypeEnabled(type, settings) /\ WantsInApp(settings)
                      THEN rows \cup {NewNotification(NextRowId(rows), first.userId,
                                                      type, now)}
                      ELSE rows
         IN  NotifyAll(after, due \ {first}, type, key)

\* Math.floor((scheduledAt - now) / 60000), in whole minutes
MinutesUntil(interview, t) == interview.scheduledAt - t

ReminderTimings(settings) ==
    <<settings.reminderTiming1, settings.reminderTiming2, settings.reminderTiming3>>

\* the test of the loop over the three timings (the first match breaks)
MatchesTiming(minutesUntil, settings) ==
    \E k \in 1..3 : Abs(minutesUntil - ReminderTimings(settings)[k]) <= ReminderTolerance

\* `if (!settings?.interviewReminders) continue`
WantsReminders(userId) ==
    notificationSettings[userId].exists /\ notificationSettings[userId].interviewReminders

\* the interviews the job sends a reminder for at instant t
DueReminders(t) ==
    {i \in interviews :
        /\ i.userId \in UserIds
        /\ WantsReminders(i.userId)
        /\ i.scheduledAt > t
        /\ MatchesTiming(MinutesUntil(i, t), notificationSettings[i.userId])}

\* checkInterviewReminders, at a cron instant, once per instant
CheckInterviewReminders ==
    /\ now % CronPeriod = 0
    /\ ~(result.op = "checkInterviewReminders" /\ result.at = now)
    /\ notifications' =
          NotifyAll(notifications, DueReminders(now), "INTERVIEW_REMINDER", "scheduledAt")
    /\ sent' = sent \cup
          {[job |-> "interviewReminders", id |-> i.id, userId |-> i.userId, at |-> now,
            value |-> MinutesUntil(i, now)] : i \in DueReminders(now)}
    /\ result' = [NoResult EXCEPT !.op = "checkInterviewReminders", !.at = now,
                                  !.count = Cardinality(DueReminders(now))]
    /\ UNCHANGED <<schedulerFrame, interviews, applications>>

\* Math.floor((now - appliedAt) / 86400000)
DaysSince(application, t) == (t - application.appliedAt) \div DayMinutes

\* `if (!settings?.applicationFollowUps) continue`
WantsFollowUps(userId) ==
    notificationSettings[userId].exists /\ notificationSettings[userId].applicationFollowUps

\* the applications the job sends a follow-up for at instant t
DueFollowUps(t) ==
    {a \in applications :
        /\ a.userId \in UserIds
        /\ WantsFollowUps(a.userId)
        /\ a.status \in {"APPLIED", "UNDER_REVIEW"}
        /\ a.appliedAt < t - FollowUpDays * DayMinutes
        /\ DaysSince(a, t) % FollowUpDays = 0}

\* checkApplicationFollowUps, at a cron instant, once per instant
CheckApplicationFollowUps ==
    /\ now % DayMinutes = FollowUpHour
    /\ ~(result.op = "checkApplicationFollowUps" /\ result.at = now)
    /\ notifications' =
          NotifyAll(notifications, DueFollowUps(now), "APPLICATION_FOLLOW_UP", "appliedAt")
    /\ sent' = sent \cup
          {[job |-> "applicationFollowUps", id |-> a.id, userId |-> a.userId, at |-> now,
            value |-> DaysSince(a, now)] : a \in DueFollowUps(now)}
    /\ result' = [NoResult EXCEPT !.op = "checkApplicationFollowUps", !.at = now,
                                  !.count = Cardinality(DueFollowUps(now))]
    /\ UNCHANGED <<schedulerFrame, interviews, applications>>

\* the clock reaches the next instant of the cron expression
CronTick(t) ==
    /\ t > now
    /\ now' = t
    /\ UNCHANGED <<verificationCodes, verificationAttempts, result, dispatcherVars,
                   wrongGuesses, appVars>>

---------------------------------------------------------------------------
(* History of the wrong guesses (no state of the program)                  *)

\* codes of (userId, type) that are valid now and whose value is not `code`
Missed(userId, code, type) ==
    {c.id : c \in {v \in verificationCodes :
                      /\ v.userId = userId /\ v.type = type /\ v.code # code
                      /\ v.isUsed = FALSE /\ v.expiresAt > now}}

CountGuess(userId, code, type) ==
    wrongGuesses' = [i \in 1..Len(wrongGuesses) |->
                        IF i \in Missed(userId, code, type)
                        THEN Min(wrongGuesses[i] + 1, DefaultMaxAttempts)
                        ELSE wrongGuesses[i]]

CountIssue ==
    wrongGuesses' = IF verificationAttempts' # verificationAttempts
                    THEN Append(wrongGuesses, 0)
                    ELSE wrongGuesses

---------------------------------------------------------------------------
(* Specifications *)

\* the call is refused, or the run may still add rows
RowsLeft(data, max) ==
    \/ nextId < max
    \/ \E a \in LastAttempts(data.userId, data.type, data.method, data.target) :
          ~DelayElapsed(a, now)

\* sequential histories of the three operations, three tuples
Next ==
    \/ \E data \in Requests, code \in GenerateCode, sendResult \in BOOLEAN :
          /\ RowsLeft(data, MaxRows)
          /\ CreateAndSendCode(data, code, sendResult)
          /\ UNCHANGED <<wrongGuesses, appVars>>
    \/ \E key \in VerifyKeys(Requests), code \in SubmittedCodes :
          /\ VerifyCode(key[1], code, key[2])
          /\ UNCHANGED <<wrongGuesses, appVars>>
    \/ CleanupExpiredCodes /\ UNCHANGED <<wrongGuesses, appVars>>
    \/ \E t \in ExpiryPoints \cup CoolDownPoints :
          t <= MaxTime /\ Tick(t) /\ UNCHANGED <<wrongGuesses, appVars>>

Spec == Init /\ [][Next]_vars

\* the same histories when every transmission succeeds
NextSent ==
    \/ \E data \in Requests, code \in GenerateCode :
          /\ RowsLeft(data, MaxRows)
          /\ CreateAndSendCode(data, code, TRUE)
          /\ UNCHANGED <<wrongGuesses, appVars>>
    \/ \E key \in VerifyKeys(Requests), code \in SubmittedCodes :
          /\ VerifyCode(key[1], code, key[2])
          /\ UNCHANGED <<wrongGuesses, appVars>>
    \/ CleanupExpiredCodes /\ UNCHANGED <<wrongGuesses, appVars>>
    \/ \E t \in ExpiryPoints \cup CoolDownPoints :
          t <= MaxTime /\ Tick(t) /\ UNCHANGED <<wrongGuesses, appVars>>

SpecSent == Init /\ [][NextSent]_vars

\* one tuple resent over more than a day
NextResend ==
    \/ \E data \in ResendRequests, code \in FixedCode, sendResult \in BOOLEAN :
          /\ RowsLeft(data, MaxResends)
          /\ CreateAndSendCode(data, code, sendResult)
          /\ UNCHANGED <<wrongGuesses, appVars>>
    \/ \E t \in CoolDownPoints \cup WindowPoints :
          t <= MaxResendTime /\ Tick(t) /\ UNCHANGED <<wrongGuesses, appVars>>

SpecResend == Init /\ [][NextResend]_vars

\* every kind of code, issued and verified around its expiry
NextTTL ==
    \/ \E data \in TTLRequests, code \in FixedCode, sendResult \in BOOLEAN :
          /\ RowsLeft(data, MaxTTLRows)
          /\ CreateAndSendCode(data, code, sendResult)
          /\ UNCHANGED <<wrongGuesses, appVars>>
    \/ \E key \in VerifyKeys(TTLRequests), code \in SubmittedCodes :
          /\ VerifyCode(key[1], code, key[2])
          /\ UNCHANGED <<wrongGuesses, appVars>>
    \/ \E t \in LastValidPoints \cup ExpiryPoints :
          t <= MaxTTLTime /\ Tick(t) /\ UNCHANGED <<wrongGuesses, appVars>>

SpecTTL == Init /\ [][NextTTL]_vars

\* one code and the guesses made at it, counted
NextGuess ==
    \/ \E data \in ResendRequests, code \in FixedCode :
          /\ RowsLeft(data, MaxGuessRows)
          /\ CreateAndSendCode(data, code, TRUE)
          /\ CountIssue
          /\ UNCHANGED appVars
    \/ \E key \in VerifyKeys(ResendRequests), code \in SubmittedCodes :
          /\ VerifyCode(key[1], code, key[2])
          /\ CountGuess(key[1], code, key[2])
          /\ UNCHANGED appVars
    \/ \E t \in CoolDownPoints \cup ExpiryPoints :
          t <= MaxTime /\ Tick(t) /\ UNCHANGED <<wrongGuesses, appVars>>

SpecGuess == Init /\ [][NextGuess]_vars

\* codes issued hours apart and cleaned up hours, a day and a week later
NextCleanup ==
    \/ \E data \in CleanupRequests, code \in FixedCode :
          /\ RowsLeft(data, MaxCleanupRows)
          /\ CreateAndSendCode(data, code, TRUE)
          /\ UNCHANGED <<wrongGuesses, appVars>>
    \/ CleanupExpiredCodes /\ UNCHANGED <<wrongGuesses, appVars>>
    \/ \E t \in ExpiryPoints \cup HourPoints \cup WeekPoints :
          t <= MaxCleanupTime /\ Tick(t) /\ UNCHANGED <<wrongGuesses, appVars>>

SpecCleanup == Init /\ [][NextCleanup]_vars

\* thresholds of the age-based cleanup: a day, and the default of 30 days
DefaultCleanupDays == 30
CleanupDays == {1, DefaultCleanupDays}

\* in-app notifications of two users, read, aged and cleaned up
NextAge ==
    \/ \E userId \in ExistingUsers :
          /\ Cardinality(notifications) < MaxAgeRows
          /\ now < MaxAgeSendTime
          /\ SendNotification(userId, "SYSTEM_NOTIFICATION", "fields", TRUE)
          /\ UNCHANGED <<wrongGuesses, appVars>>
    \/ \E userId \in ExistingUsers, n \in notifications :
          /\ MarkAsRead(userId, n.id)
          /\ UNCHANGED <<wrongGuesses, appVars>>
    \/ \E userId \in ExistingUsers, olderThanDays \in CleanupDays :
          /\ CleanupOldNotifications(userId, olderThanDays)
          /\ UNCHANGED <<wrongGuesses, appVars>>
    \/ \E t \in AgePoints({DefaultCleanupDays}) :
          t <= MaxAgeTime /\ TickAge(t) /\ UNCHANGED <<wrongGuesses, appVars>>

SpecAge == Init /\ [][NextAge]_vars

\* the row of column defaults
DefaultSettings ==
    [exists |-> TRUE, emailEnabled |-> TRUE, smsEnabled |-> FALSE, pushEnabled |-> TRUE,
     interviewReminders |-> TRUE, applicationFollowUps |-> TRUE, weeklyReports |-> TRUE,
     deadlineAlerts |-> TRUE, statusUpdates |-> TRUE, phoneNumber |-> NoPhone,
     reminderTiming1 |-> 1440, reminderTiming2 |-> 60, reminderTiming3 |-> 15]

\* the default row with the push channel, the email channel and the
\* status-update category switched either way
InAppSettings ==
    {[DefaultSettings EXCEPT !.pushEnabled = push, !.emailEnabled = email,
                             !.statusUpdates = category]
        : push \in BOOLEAN, email \in BOOLEAN, category \in BOOLEAN}

\* every operation of the dispatcher that writes, on the rows of a user with
\* settings, a user without and an unknown user
NextInApp ==
    \/ \E settings \in InAppSettings :
          /\ UpdateNotificationSettings("u1", settings)
          /\ UNCHANGED <<wrongGuesses, appVars>>
    \/ \E userId \in ExistingUsers \cup {"nobody"},
          type \in {"STATUS_UPDATE", "SYSTEM_NOTIFICATION"}, created \in BOOLEAN :
          /\ NextNotificationId <= MaxInAppRows
          /\ SendNotification(userId, type, "fields", created)
          /\ UNCHANGED <<wrongGuesses, appVars>>
    \/ \E userId \in ExistingUsers, n \in notifications :
          /\ MarkAsRead(userId, n.id)
          /\ UNCHANGED <<wrongGuesses, appVars>>
    \/ \E userId \in ExistingUsers :
          /\ MarkAllAsRead(userId)
          /\ UNCHANGED <<wrongGuesses, appVars>>
    \/ \E userId \in ExistingUsers, n \in notifications :
          /\ DeleteNotification(userId, n.id)
          /\ UNCHANGED <<wrongGuesses, appVars>>
    \/ \E userId \in ExistingUsers :
          /\ CleanupOldNotifications(userId, DefaultCleanupDays)
          /\ UNCHANGED <<wrongGuesses, appVars>>

SpecInApp == Init /\ [][NextInApp]_vars

\* the default row with the SMS channel and the phone number either way
SMSSettings ==
    {[DefaultSettings EXCEPT !.smsEnabled = sms, !.phoneNumber = phone]
        : sms \in BOOLEAN, phone \in {NoPhone, "+331"}}

\* a process with or without Twilio credentials sending codes and urgent
\* notifications
NextNoSMS ==
    \/ \E data \in SMSRequests, code \in FixedCode, delivered \in BOOLEAN :
          /\ RowsLeft(data, MaxNoSMSRows)
          /\ CreateAndSendCode(data, code, delivered)
          /\ UNCHANGED <<wrongGuesses, appVars>>
    \/ \E t \in CoolDownPoints :
          t <= MaxTime /\ Tick(t) /\ UNCHANGED <<wrongGuesses, appVars>>
    \/ \E settings \in SMSSettings :
          /\ UpdateNotificationSettings("u1", settings)
          /\ UNCHANGED <<wrongGuesses, appVars>>
    \/ \E type \in {"INTERVIEW_REMINDER", "DEADLINE_ALERT"}, created \in BOOLEAN :
          /\ Cardinality(notifications) < MaxNotifications
          /\ SendNotification("u1", type, "interview", created)
          /\ UNCHANGED <<wrongGuesses, appVars>>

SpecNoSMS == InitAnyConfig /\ [][NextNoSMS]_vars

\* addresses submitted to the auth endpoints
Emails == {EmailOf[u] : u \in ExistingUsers}

\* accounts being registered, their settings edited or not, and notified
NextRegister ==
    \/ \E id \in ExistingUsers, email \in Emails, code \in FixedCode, delivered \in BOOLEAN :
          Register(id, email, "secret", code, delivered)
    \/ \E userId \in UserIds, settings \in {DefaultSettings} \cup SMSSettings :
          /\ UpdateNotificationSettings(userId, settings)
          /\ UNCHANGED <<wrongGuesses, appVars>>
    \/ \E userId \in UserIds, created \in BOOLEAN :
          /\ NextNotificationId <= MaxNotifications
          /\ SendNotification(userId, "INTERVIEW_REMINDER", "fields", created)
          /\ UNCHANGED <<wrongGuesses, appVars>>
    \/ \E t \in CoolDownPoints :
          t <= MaxTime /\ Tick(t) /\ UNCHANGED <<wrongGuesses, appVars>>

SpecRegister == InitNoUsers /\ [][NextRegister]_vars

\* the requests of the interleaved calls: one tuple, and a second
\* method and target of the same user and type
RaceRequests ==
    { [userId |-> "u1", type |-> "TWO_FACTOR_AUTH", method |-> "EMAIL", target |-> "u1@mail"],
      [userId |-> "u1", type |-> "TWO_FACTOR_AUTH", method |-> "SMS",   target |-> "+331"] }

\* calls served by one event loop: at each await another call may run
NextRace ==
    \/ \E data \in RaceRequests, code \in FixedCode :
          Len(calls) < MaxCalls /\ BeginCall(data, code)
    \/ \E i \in DOMAIN calls : CountStep(i)
    \/ \E i \in DOMAIN calls : UpdateManyStep(i)
    \/ \E i \in DOMAIN calls : CreateCodeStep(i)
    \/ \E i \in DOMAIN calls : CreateAttemptStep(i)
    \/ \E i \in DOMAIN calls, delivered \in BOOLEAN : SendStep(i, delivered)
    \/ \E t \in CoolDownPoints :
          t <= MaxTime /\ Tick(t) /\ UNCHANGED <<wrongGuesses, appVars>>

SpecRace == Init /\ [][NextRace]_vars

\* the default row with the third offset at its default and at the smallest
\* value the settings form accepts, and with the reminders switched off
MinReminderTiming == 5
ReminderSettings ==
    {[DefaultSettings EXCEPT !.reminderTiming3 = timing, !.interviewReminders = on]
        : timing \in {DefaultSettings.reminderTiming3, MinReminderTiming}, on \in BOOLEAN}

\* start times more than a day ahead, one per phase of the 15-minute cron
InterviewTimes == (MaxReminderTime - CronPeriod + 1) .. MaxReminderTime

\* an interview is booked and the offsets are set, then the job runs every
\* 15 minutes until the interview has started
NextReminders ==
    \/ \E settings \in ReminderSettings :
          /\ BeforeFirstJob
          /\ UpdateNotificationSettings("u1", settings)
          /\ UNCHANGED <<wrongGuesses, appVars>>
    \/ \E scheduledAt \in InterviewTimes :
          /\ BeforeFirstJob
          /\ Cardinality(interviews) < MaxInterviews
          /\ CreateInterview("u1", scheduledAt)
    \/ CheckInterviewReminders
    \/ /\ result.op = "checkInterviewReminders" /\ result.at = now
       /\ now <= MaxReminderTime
       /\ CronTick(now + CronPeriod)

SpecReminders == Init /\ [][NextReminders]_vars

\* the default row with the follow-ups either way
FollowUpSettings ==
    {[DefaultSettings EXCEPT !.applicationFollowUps = on] : on \in BOOLEAN}

ApplicationStatus ==
    {"APPLIED", "UNDER_REVIEW", "INTERVIEW_SCHEDULED", "INTERVIEWED", "OFFER_RECEIVED",
     "REJECTED", "ACCEPTED", "WITHDRAWN"}

\* an application is recorded at midnight or at 10:00, dated now or midnight,
\* by a user with or without a settings row; then the job runs daily at 10:00
\* for three weeks
NextFollowUps ==
    \/ \E settings \in FollowUpSettings :
          /\ BeforeFirstJob
          /\ UpdateNotificationSettings("u1", settings)
          /\ UNCHANGED <<wrongGuesses, appVars>>
    \/ \E status \in {"APPLIED", "UNDER_REVIEW", "REJECTED"}, appliedAt \in {0, now} :
          /\ BeforeFirstJob
          /\ Cardinality(applications) < MaxApplications
          /\ CreateApplication("u1", status, appliedAt)
    \/ CheckApplicationFollowUps
    \/ /\ BeforeFirstJob /\ now < FollowUpHour
       /\ CronTick(FollowUpHour)
    \/ /\ result.op = "checkApplicationFollowUps" /\ result.at = now
       /\ now < MaxFollowUpTime
       /\ CronTick(now + DayMinutes)

SpecFollowUps == Init /\ [][NextFollowUps]_vars

\* password resets asked for known, unknown and disabled accounts, again and
\* again around the cool-down
NextForgot ==
    \/ \E email \in Emails \cup {"nobody@mail"}, code \in FixedCode, delivered \in BOOLEAN :
          /\ nextId < MaxForgotRows
          /\ ForgotPassword(email, code, delivered)
    \/ \E isActive \in BOOLEAN : ToggleUserStatus("u2", isActive)
    \/ \E t \in CoolDownPoints :
          t <= MaxTime /\ Tick(t) /\ UNCHANGED <<wrongGuesses, appVars>>

SpecForgot == Init /\ [][NextForgot]_vars

\* an account with and without 2FA; codes asked for by login and by
\* resendVerificationCode, and submitted to verify2FA
NextLogin ==
    \/ \E enabled2FA \in BOOLEAN : UpdateUserSettings("u1", enabled2FA)
    \/ \E email \in {"u1@mail", "nobody@mail"}, password \in {"secret", "guess"},
          code \in FixedCode :
          /\ nextId < MaxLoginRows
          /\ Login(email, password, code, TRUE)
    \/ \E userId \in {"u1", "nobody"}, type \in ResendTypes \cup {"PASSWORD_RESET"},
          code \in FixedCode :
          /\ nextId < MaxLoginRows
          /\ ResendVerificationCode(userId, type, code, TRUE)
    \/ \E userId \in {"u1", "nobody"}, code \in SubmittedCodes :
          Verify2FA(userId, code)
    \/ \E t \in CoolDownPoints :
          t <= MaxTime /\ Tick(t) /\ UNCHANGED <<wrongGuesses, appVars>>

SpecLogin == Init /\ [][NextLogin]_vars

\* two administrators
InitAdmins ==
    /\ InitTables
    /\ smsClient = TRUE
    /\ users = {User(u, EmailOf[u], "secret", "ADMIN", TRUE, TRUE, FALSE)
                   : u \in ExistingUsers}

BulkActions == {"activate", "deactivate", "delete"}

\* sequential histories of the four admin operations
NextAdmin ==
    \/ \E userId \in ExistingUsers \cup {"nobody"} : DeleteUser(userId)
    \/ \E userId \in ExistingUsers \cup {"nobody"}, newRole \in UserRole :
          ChangeUserRole(userId, newRole)
    \/ \E userId \in ExistingUsers \cup {"nobody"}, isActive \in BOOLEAN :
          ToggleUserStatus(userId, isActive)
    \/ \E userIds \in SUBSET ExistingUsers, actionType \in BulkActions \cup {"promote"} :
          BulkUserAction(userIds, actionType)

SpecAdmin == InitAdmins /\ [][NextAdmin]_vars

\* a tuple and four others that differ from it in the user, in the type, in
\* the method and target, and in the target alone
TupleRequests ==
    { [userId |-> "u1", type |-> "TWO_FACTOR_AUTH", method |-> "EMAIL", target |-> "u1@mail"],
      [userId |-> "u2", type |-> "TWO_FACTOR_AUTH", method |-> "EMAIL", target |-> "u1@mail"],
      [userId |-> "u1", type |-> "PASSWORD_RESET", method |-> "EMAIL", target |-> "u1@mail"],
      [userId |-> "u1", type |-> "TWO_FACTOR_AUTH", method |-> "SMS", target |-> "+331"],
      [userId |-> "u1", type |-> "TWO_FACTOR_AUTH", method |-> "EMAIL", target |-> "new@mail"] }

\* codes asked for over the five tuples
NextTuples ==
    \/ \E data \in TupleRequests, code \in FixedCode, sendResult \in BOOLEAN :
          /\ RowsLeft(data, MaxTupleRows)
          /\ CreateAndSendCode(data, code, sendResult)
          /\ UNCHANGED <<wrongGuesses, appVars>>
    \/ \E t \in CoolDownPoints :
          t <= MaxTime /\ Tick(t) /\ UNCHANGED <<wrongGuesses, appVars>>

SpecTuples == Init /\ [][NextTuples]_vars

\* the category toggles of a settings row
CategoryToggles ==
    {"interviewReminders", "applicationFollowUps", "weeklyReports", "deadlineAlerts",
     "statusUpdates"}

\* the rows the runs store: every channel combination, with all categories on,
\* one category off, or all categories off
SettingsInputs ==
    {settings \in Settings :
        Cardinality({toggle \in CategoryToggles : ~settings[toggle]}) \in {0, 1, 5}}

\* the dispatcher: one user, every type and payload
NextNotify ==
    \/ \E settings \in SettingsInputs :
          /\ UpdateNotificationSettings("u1", settings)
          /\ UNCHANGED <<wrongGuesses, appVars>>
    \/ \E userId \in {"u1", "nobody"}, type \in NotificationType,
          data \in NotificationData, created \in BOOLEAN :
          /\ Cardinality(notifications) < MaxNotifications
          /\ SendNotification(userId, type, data, created)
          /\ UNCHANGED <<wrongGuesses, appVars>>

SpecNotify == InitAnyConfig /\ [][NextNotify]_vars

---------------------------------------------------------------------------
(* Properties of the code issuer/verifier                                  *)

SameKey(c, d) == c.userId = d.userId /\ c.type = d.type

SameTriple(c, d) == SameKey(c, d) /\ c.code = d.code

Active(c) == ~c.isUsed /\ now < c.expiresAt

Verified(c) == c.usedAt # NoDate

\* the rows of one (userId, type), the newest of them and the one before it
RowsOf(key) == {c \in verificationCodes : c.userId = key[1] /\ c.type = key[2]}

Newest(rows) == CHOOSE c \in rows : \A d \in rows : d.id <= c.id

SecondCode(key) == Newest(RowsOf(key))

FirstCode(key) == Newest(RowsOf(key) \ {SecondCode(key)})

IssuedTwice(key) == Cardinality(RowsOf(key)) >= 2

VerifiedFor(key) ==
    result.op = "verifyCode" /\ result.userId = key[1] /\ result.type = key[2]

\* C1: in sequential histories at most one code of a (userId, type) is unused
\* and unexpired, because every older code of the pair was used or expired
\* when the next one was created.
C1_OneActiveCode ==
    /\ \A c, d \in verificationCodes :
          (SameKey(c, d) /\ Active(c) /\ Active(d)) => c = d
    /\ \A c, d \in verificationCodes :
          (SameKey(c, d) /\ c.id < d.id) => (c.isUsed \/ c.expiresAt <= d.createdAt)

\* a code that a later createAndSendCode marked used before its expiry
C1_Witness ==
    \E c, d \in verificationCodes :
        /\ SameKey(c, d) /\ c.id < d.id
        /\ c.isUsed /\ ~Verified(c) /\ now < c.expiresAt
        /\ Active(d)

VerifyMatchesStore ==
    result.op = "verifyCode" =>
        /\ result.success =>
              \E c \in verificationCodes :
                  /\ c.userId = result.userId /\ c.code = result.code
                  /\ c.type = result.type
                  /\ c.isUsed /\ c.usedAt = result.at /\ result.at < c.expiresAt
        /\ ~result.success =>
              /\ result.message = MsgInvalidOrExpired
              /\ ~\E c \in verificationCodes :
                    /\ c.userId = result.userId /\ c.code = result.code
                    /\ c.type = result.type
                    /\ ~c.isUsed /\ result.at < c.expiresAt

\* C3 as stated: a correct code, before expiry, is verified by the first call,
\* which sets isUsed and usedAt, and every later call with the same
\* (userId, code, type) fails: no two rows of one triple are ever verified.
C3_TripleVerifiedOnce ==
    /\ VerifyMatchesStore
    /\ \A c, d \in verificationCodes :
          (SameTriple(c, d) /\ Verified(c) /\ Verified(d)) => c = d

\* C3 amended: ... the first call succeeds and sets isUsed and usedAt, no
\* issued code is verified twice, and a later call with the same
\* (userId, code, type) succeeds only on a code that createAndSendCode issued
\* with the same value after that first verification.
C3_CodeVerifiedOnce ==
    /\ VerifyMatchesStore
    /\ \A c \in verificationCodes :
          /\ Verified(c) => (c.isUsed /\ c.attempts = 1)
          /\ ~Verified(c) => c.attempts = 0
    /\ \A c, d \in verificationCodes :
          (SameTriple(c, d) /\ Verified(c) /\ Verified(d) /\ c.id < d.id)
              => c.usedAt <= d.createdAt

\* a second verifyCode with a code that was verified before
C3_Witness ==
    /\ result.op = "verifyCode" /\ ~result.success
    /\ \E c \in verificationCodes :
          /\ c.userId = result.userId /\ c.code = result.code /\ c.type = result.type
          /\ Verified(c) /\ c.usedAt <= result.at /\ result.at < c.expiresAt

\* C4: after maxAttempts (5) verifyCode calls with an incorrect code for a
\* (user, kind) that has a valid code, that code is never verified.
C4_GuessLimit ==
    \A c \in verificationCodes :
        Verified(c) => wrongGuesses[c.id] < DefaultMaxAttempts

SameTupleRows(a, b) == SameTuple(a, b.userId, b.type, b.method, b.target)

\* C5: a code and an attempt are persisted only when the tuple has no attempt
\* or the cool-down of its latest attempt is over; a refused call returns that
\* attempt's nextAllowedAt; attempts of a tuple are at least a cool-down apart.
C5_CoolDown ==
    /\ \A a, b \in verificationAttempts :
          (SameTupleRows(a, b) /\ a.id < b.id) => a.nextAllowedAt <= b.sentAt
    /\ \A c \in verificationCodes :
          \E a \in verificationAttempts :
              a.id = c.id /\ SameTupleRows(a, c) /\ a.sentAt = c.createdAt
    /\ (result.op = "createAndSendCode" /\ result.message = MsgWait) =>
          /\ ~result.success
          /\ \E a \in verificationAttempts :
                /\ SameTupleRows(a, result)
                /\ \A b \in verificationAttempts :
                      SameTupleRows(b, result) => b.sentAt <= a.sentAt
                /\ result.at < a.nextAllowedAt
                /\ result.nextAllowedAt = a.nextAllowedAt
    /\ (result.op = "createAndSendCode" /\ result.message # MsgWait) =>
          \A a \in verificationAttempts :
              SameTupleRows(a, result) =>
                  (a.sentAt = result.at \/ a.nextAllowedAt <= result.at)

\* a resend after the cool-down, and a refused one right after it
C5_Witness ==
    /\ result.op = "createAndSendCode" /\ result.message = MsgWait
    /\ \E a, b \in verificationAttempts :
          /\ SameTupleRows(a, result) /\ SameTupleRows(b, result)
          /\ a.id < b.id /\ b.sentAt = result.at

\* the attempts of the same tuple sent in the 24 hours before attempt a
PriorCount(a) ==
    Cardinality({b \in verificationAttempts :
                    /\ SameTupleRows(a, b) /\ b.id < a.id
                    /\ a.sentAt - b.sentAt <= 24 * 60})

ExpectedDelay(n) ==
    CASE n = 0 -> 1 [] n = 1 -> 2 [] n = 2 -> 5 [] n = 3 -> 10
      [] n = 4 -> 15 [] n = 5 -> 30 [] OTHER -> 60

\* C6: the cool-down of an authorized call is RESEND_DELAYS[min(n, 6)] minutes,
\* n the attempts of the tuple in the preceding 24 hours; canSendCode right
\* after the call refuses with nextAllowedAt = send time + that delay; three
\* sends within an hour get 1, 2 and 5 minutes; no cool-down exceeds 60.
C6_Delays ==
    /\ \A a \in verificationAttempts :
          /\ a.nextAllowedAt = a.sentAt + ExpectedDelay(PriorCount(a))
          /\ a.nextAllowedAt - a.sentAt <= 60
    /\ \A a \in verificationAttempts :
          (a.sentAt = now /\ \A b \in verificationAttempts : b.id <= a.id) =>
              CanSendCode(a.userId, a.type, a.method, a.target) =
                  {[canSend |-> FALSE,
                    nextAllowedAt |-> now + ExpectedDelay(PriorCount(a)),
                    waitMinutes |-> ExpectedDelay(PriorCount(a))]}
    /\ (result.op = "createAndSendCode" /\ result.success) =>
          \E a \in verificationAttempts :
              /\ SameTupleRows(a, result) /\ a.sentAt = result.at
              /\ result.nextAllowedAt = result.at + ExpectedDelay(PriorCount(a))
    /\ \A a, b, c \in verificationAttempts :
          (a.id = 1 /\ b.id = 2 /\ c.id = 3 /\ c.sentAt - a.sentAt <= 60) =>
              /\ a.nextAllowedAt - a.sentAt = 1
              /\ b.nextAllowedAt - b.sentAt = 2
              /\ c.nextAllowedAt - c.sentAt = 5

\* the eighth send of a day (capped at 60) and a send after the day is over
C6_Witness ==
    /\ \E a \in verificationAttempts :
          PriorCount(a) = 7 /\ a.nextAllowedAt - a.sentAt = 60
    /\ \E a \in verificationAttempts :
          a.id > PriorCount(a) + 1

\* C7: a createAndSendCode call refused for the cool-down returns
\* success=false with the wait message and nextAllowedAt, and changes no row.
C7_RefusedNoChange ==
    [][ (result' # result /\ result'.op = "createAndSendCode"
            /\ result'.message = MsgWait) =>
          /\ verificationCodes' = verificationCodes
          /\ verificationAttempts' = verificationAttempts
          /\ ~result'.success
          /\ result'.nextAllowedAt > result'.at
          /\ result'.waitMinutes >= 1 ]_vars

\* a refused call for a (user, kind) that has an active code
C7_Witness ==
    /\ result.op = "createAndSendCode" /\ result.message = MsgWait
    /\ result.at = now
    /\ \E c \in verificationCodes :
          c.userId = result.userId /\ c.type = result.type /\ Active(c)

TTLMinutes(type) ==
    CASE type = "EMAIL_VERIFICATION" -> 1440
      [] type = "PASSWORD_RESET"     -> 15
      [] type = "TWO_FACTOR_AUTH"    -> 5
      [] type = "PHONE_VERIFICATION" -> 10
      [] type = "ACCOUNT_DELETION"   -> 30
      [] type = "SENSITIVE_ACTION"   -> 10

\* C9: a code expires TTL(kind) minutes after it is issued; verifyCode with the
\* correct unused code succeeds strictly before expiresAt and fails with
\* 'invalid or expired' from expiresAt on.
C9_Expiry ==
    /\ \A c \in verificationCodes : c.expiresAt = c.createdAt + TTLMinutes(c.type)
    /\ result.op = "verifyCode" =>
          /\ result.success =>
                \E c \in verificationCodes :
                    /\ c.userId = result.userId /\ c.code = result.code
                    /\ c.type = result.type /\ c.usedAt = result.at
                    /\ result.at < c.createdAt + TTLMinutes(c.type)
          /\ ~result.success =>
                /\ result.message = MsgInvalidOrExpired
                /\ ~\E c \in verificationCodes :
                      /\ c.userId = result.userId /\ c.code = result.code
                      /\ c.type = result.type /\ ~c.isUsed
                      /\ result.at < c.createdAt + TTLMinutes(c.type)

\* the email-verification code refused at the very minute it expires
C9_Witness ==
    /\ result.op = "verifyCode" /\ result.message = MsgInvalidOrExpired
    /\ \E c \in verificationCodes :
          /\ c.userId = result.userId /\ c.code = result.code /\ c.type = result.type
          /\ c.type = "EMAIL_VERIFICATION" /\ ~c.isUsed
          /\ result.at = c.createdAt + 1440

---------------------------------------------------------------------------
(* C10 *)

\* the category toggle the claim pairs with each notification type
ToggleOf(type) ==
    CASE type = "INTERVIEW_REMINDER"    -> "interviewReminders"
      [] type = "APPLICATION_FOLLOW_UP" -> "applicationFollowUps"
      [] type = "WEEKLY_REPORT"         -> "weeklyReports"
      [] type = "DEADLINE_ALERT"        -> "deadlineAlerts"
      [] type = "STATUS_UPDATE"         -> "statusUpdates"
      [] OTHER                          -> "none"

\* the category of `type` is switched off in the row `settings`
CategoryOff(type, settings) ==
    settings.exists /\ ToggleOf(type) # "none" /\ ~settings[ToggleOf(type)]

\* C10: a sendNotification call for an existing user whose toggle for the
\* category of the type is false creates no Notification row and calls
\* neither the email sender nor the SMS sender, whatever pushEnabled,
\* emailEnabled, smsEnabled and phoneNumber are; for a type without a toggle,
\* or a user without a settings row, the call goes on to the in-app step:
\* when that step applies, the row is created or its failure ends the call.
C10_CategoryToggle ==
    [][ (result'.op = "sendNotification" /\ result'.userId \in ExistingUsers) =>
          LET settings == notificationSettings[result'.userId]
              type == result'.type
          IN  /\ CategoryOff(type, settings) =>
                    /\ notifications' = notifications
                    /\ result'.emails = <<>>
                    /\ result'.sms = <<>>
                    /\ result'.message = ""
              /\ ((~settings.exists \/ ToggleOf(type) = "none")
                      /\ (~settings.exists \/ settings.pushEnabled)
                      /\ result' # result) =>
                    \/ \E row \in notifications' \ notifications :
                          row.userId = result'.userId /\ row.type = type
                    \/ result'.message = "Erreur lors de l'envoi de notification"
       ]_vars

\* a reminder was requested, with its interview payload, for a user whose
\* channels are all on and whose interviewReminders toggle is off
C10_Witness ==
    /\ result.op = "sendNotification"
    /\ result.userId = "u1"
    /\ result.type = "INTERVIEW_REMINDER"
    /\ result.data = "interview"
    /\ notificationSettings["u1"].exists
    /\ ~notificationSettings["u1"].interviewReminders
    /\ notificationSettings["u1"].pushEnabled
    /\ notificationSettings["u1"].emailEnabled
    /\ notificationSettings["u1"].smsEnabled
    /\ notificationSettings["u1"].phoneNumber # NoPhone
    /\ smsClient
    /\ notifications = {}

---------------------------------------------------------------------------
(* C11 *)

\* the last call was sendNotification for an existing user, the category of
\* its type was not switched off, and the in-app step did not end it
Dispatched ==
    /\ result.op = "sendNotification"
    /\ result.userId \in ExistingUsers
    /\ ~CategoryOff(result.type, notificationSettings[result.userId])
    /\ result.message = ""

\* the types the claim says are emailed
EmailedTypes ==
    {"WEEKLY_REPORT", "APPLICATION_FOLLOW_UP", "INTERVIEW_REMINDER", "STATUS_UPDATE",
     "SYSTEM_NOTIFICATION"}

\* C11: for an enabled category, sendNotification calls the email sender once,
\* with the user's address, whenever the user's settings have emailEnabled and
\* the type is WEEKLY_REPORT, APPLICATION_FOLLOW_UP, INTERVIEW_REMINDER,
\* STATUS_UPDATE or SYSTEM_NOTIFICATION, and does not call it otherwise,
\* whatever the data payload is.
C11_EmailPolicy ==
    Dispatched =>
        LET settings == notificationSettings[result.userId]
            due == settings.exists /\ settings.emailEnabled
                                   /\ result.type \in EmailedTypes
        IN  /\ due => /\ Len(result.emails) = 1
                      /\ result.emails[1].to = result.userId
            /\ ~due => result.emails = <<>>

---------------------------------------------------------------------------
(* C12 *)

\* the types the claim says may go out by SMS
SMSTypes == {"INTERVIEW_REMINDER", "DEADLINE_ALERT"}

\* C12: sendNotification calls the SMS sender only for an existing user whose
\* settings have smsEnabled and a phone number, and only for INTERVIEW_REMINDER
\* and DEADLINE_ALERT, and then once, to that number; a WEEKLY_REPORT never
\* goes out by SMS; without a phone number the SMS step is skipped and
\* raises nothing.
C12_SMSPolicy ==
    result.op = "sendNotification" =>
        /\ result.sms # <<>> =>
              /\ result.userId \in ExistingUsers
              /\ LET settings == notificationSettings[result.userId]
                 IN  /\ settings.exists /\ settings.smsEnabled
                     /\ settings.phoneNumber # NoPhone
                     /\ result.type \in SMSTypes
                     /\ Len(result.sms) = 1
                     /\ result.sms[1].to = settings.phoneNumber
        /\ result.type = "WEEKLY_REPORT" => result.sms = <<>>
        /\ (/\ result.userId \in ExistingUsers
            /\ notificationSettings[result.userId].exists
            /\ notificationSettings[result.userId].phoneNumber = NoPhone
            /\ ~notificationSettings[result.userId].pushEnabled) =>
              result.sms = <<>> /\ result.message = ""

\* a deadline alert went out by SMS
C12_Witness ==
    /\ result.op = "sendNotification"
    /\ result.type = "DEADLINE_ALERT"
    /\ Len(result.sms) = 1
    /\ notificationSettings["u1"].smsEnabled
    /\ notificationSettings["u1"].phoneNumber = "+331"

---------------------------------------------------------------------------
(* C13 *)

\* a row of settings with deadline alerts on, SMS on and a phone number
DeadlineBySMS(settings) ==
    /\ settings.exists /\ settings.deadlineAlerts
    /\ settings.smsEnabled /\ settings.phoneNumber # NoPhone

\* the step is a sendNotification call of a DEADLINE_ALERT for such a user
DeadlineAlertCall ==
    /\ result'.op = "sendNotification"
    /\ result'.type = "DEADLINE_ALERT"
    /\ result'.userId \in ExistingUsers
    /\ DeadlineBySMS(notificationSettings[result'.userId])

\* the in-app rows the step created
CreatedRows == notifications' \ notifications

---------------------------------------------------------------------------
(* C14 *)

\* the SMS step is due for the type under the row `settings`
SMSDue(type, settings) ==
    /\ settings.exists /\ settings.smsEnabled /\ settings.phoneNumber # NoPhone
    /\ type \in SMSTypes

\* the email step is due for an interview reminder carrying its interview
ReminderEmailDue(type, data, settings) ==
    /\ settings.exists /\ settings.emailEnabled
    /\ type = "INTERVIEW_REMINDER" /\ data = "interview"

\* C14: in a sendNotification call for an existing user and an enabled
\* category, the SMS that is due and the email that is due are attempted
\* whatever happened to the channels before them, the creation of the in-app
\* row included.
C14_ChannelsIndependent ==
    (/\ result.op = "sendNotification"
     /\ result.userId \in ExistingUsers
     /\ ~CategoryOff(result.type, notificationSettings[result.userId])) =>
        LET settings == notificationSettings[result.userId]
        IN  /\ SMSDue(result.type, settings) => Len(result.sms) = 1
            /\ ReminderEmailDue(result.type, result.data, settings) =>
                  Len(result.emails) = 1

---------------------------------------------------------------------------
(* C15 *)

\* the step is a verifyCode call
VerifyCall == result'.op = "verifyCode" /\ now' = now

\* the stored codes carrying the submitted (userId, code, type)
Submitted ==
    {c \in verificationCodes :
        /\ c.userId = result'.userId /\ c.code = result'.code
        /\ c.type = result'.type}

\* the submitted value matches no code, or only codes that are used or expired
MatchesNoValidCode == \A c \in Submitted : c.isUsed \/ c.expiresAt <= now

\* what a caller of verifyCode gets back
Returned(r) == <<r.success, r.message, r.nextAllowedAt, r.waitMinutes, r.count>>

\* C15: a verifyCode call whose submitted value matches no stored code, or
\* only expired ones, or only used ones, returns one and the same thing in the
\* three cases (success=false with the 'invalid or expired' message and
\* nothing else) and changes no stored row.
C15_NoGuessOracle ==
    [][ (VerifyCall /\ MatchesNoValidCode) =>
          /\ Returned(result') = <<FALSE, MsgInvalidOrExpired, NoDate, 0, 0>>
          /\ verificationCodes' = verificationCodes
          /\ verificationAttempts' = verificationAttempts
       ]_vars

\* a code that was verified is submitted again before it expires
C15_Witness ==
    /\ result.op = "verifyCode" /\ ~result.success /\ result.at = now
    /\ \E c \in verificationCodes :
          /\ c.userId = result.userId /\ c.code = result.code /\ c.type = result.type
          /\ c.isUsed /\ c.usedAt # NoDate /\ now < c.expiresAt

---------------------------------------------------------------------------
(* C16 *)

\* the step is a cleanupExpiredCodes call
CleanupCall == result'.op = "cleanupExpiredCodes" /\ now' = now

\* the rows the claim says a cleanup at instant t deletes
DueForCleanup(c, t) ==
    \/ c.expiresAt < t
    \/ (c.isUsed /\ t - c.createdAt > 7 * 24 * 60)

\* C16: cleanupExpiredCodes deletes exactly the codes with expiresAt < now or
\* used and created more than 7 days ago, returns how many they were, leaves
\* every other code and every attempt as it was, and so never deletes an
\* unused code that has not expired.
C16_CleanupExact ==
    [][ CleanupCall =>
          /\ verificationCodes' = {c \in verificationCodes : ~DueForCleanup(c, now)}
          /\ result'.count = Cardinality(verificationCodes \ verificationCodes')
          /\ verificationAttempts' = verificationAttempts
          /\ \A c \in verificationCodes :
                (~c.isUsed /\ now <= c.expiresAt) => c \in verificationCodes'
       ]_vars

\* a cleanup has just deleted exactly one code, which had expired an hour
\* before, and kept an unused code that expires in an hour
C16_Witness ==
    /\ result.op = "cleanupExpiredCodes" /\ result.at = now /\ result.count = 1
    /\ \E c \in verificationCodes : ~c.isUsed /\ c.expiresAt = now + 60
    /\ \E a \in verificationAttempts :
          /\ a.sentAt + 1440 = now - 60
          /\ ~\E c \in verificationCodes : c.userId = a.userId /\ c.createdAt = a.sentAt

---------------------------------------------------------------------------
(* C17 *)

\* the step is a cleanupOldNotifications call
AgeCleanupCall == result'.op = "cleanupOldNotifications" /\ now' = now

\* the rows the step deleted
DeletedRows == notifications \ notifications'

\* C17: cleanupOldNotifications(userId, olderThanDays) deletes only rows of
\* that user that are read and were created more than olderThanDays days
\* before the call; it deletes no unread row, however old, changes no row,
\* and touches no row of another user.
C17_AgeCleanup ==
    [][ AgeCleanupCall =>
          /\ notifications' \subseteq notifications
          /\ \A n \in DeletedRows :
                /\ n.userId = result'.userId
                /\ n.isRead
                /\ now - n.createdAt > result'.days * 24 * 60
          /\ \A n \in notifications :
                (~n.isRead \/ n.userId # result'.userId) => n \in notifications'
       ]_vars

\* the default cleanup has deleted a read row and kept an unread row of the
\* same user that is older than 30 days
C17_Witness ==
    /\ result.op = "cleanupOldNotifications" /\ result.at = now
    /\ result.days = 30 /\ result.count = 1
    /\ \E n \in notifications :
          /\ n.userId = result.userId /\ ~n.isRead
          /\ now - n.createdAt > 30 * 24 * 60

---------------------------------------------------------------------------
(* C18 *)

\* a string of six decimal digits
SixDigits(code) == Len(code) = 6 /\ \A i \in 1..6 : code[i] \in 0..9

\* C18: every code generateCode produces, and so every code stored, is a
\* string of six decimal digits, and the values it can produce are exactly
\* the integers from 100000 to 999999, both included.
C18_CodeRange ==
    /\ \A c \in verificationCodes : c.code \in GenerateCode
    /\ \A code \in GenerateCode : SixDigits(code)
    /\ \A n \in SampleInts :
          NumberToString(n) \in GenerateCode <=> (100000 <= n /\ n <= 999999)

---------------------------------------------------------------------------
(* C19 *)

\* the rows a verifyCode call of this step finds
FoundByVerify == {c \in Submitted : ~c.isUsed /\ now < c.expiresAt}

AttemptsZeroOrOne ==
    /\ \A c \in verificationCodes : c.attempts = (IF c.usedAt # NoDate THEN 1 ELSE 0)
    /\ result.message # MsgTooManyAttempts

---------------------------------------------------------------------------
(* C20 *)

\* the ids of the rows stored
RowIds(rows) == {n.id : n \in rows}

\* C20: a sendNotification call for an existing user and a category that is
\* not switched off creates exactly one in-app row, unread, of that user and
\* type, when the user has no settings row or pushEnabled is true (and the
\* insert goes through; none when the insert fails), and creates none when
\* pushEnabled is false; no other operation of the dispatcher adds a row.
C20_InAppRows ==
    [][ IF result'.op = "sendNotification"
        THEN (/\ result'.userId \in ExistingUsers
              /\ ~CategoryOff(result'.type, notificationSettings[result'.userId])) =>
                LET settings == notificationSettings[result'.userId]
                    inApp == ~settings.exists \/ settings.pushEnabled
                IN  /\ notifications \subseteq notifications'
                    /\ IF inApp /\ result'.message = ""
                       THEN /\ Cardinality(CreatedRows) = 1
                            /\ \A row \in CreatedRows :
                                  /\ row.userId = result'.userId
                                  /\ row.type = result'.type
                                  /\ ~row.isRead
                       ELSE CreatedRows = {}
                    /\ ~inApp => result'.message = ""
        ELSE RowIds(notifications') \subseteq RowIds(notifications)
      ]_vars

\* a user without settings got a row, and then a user with pushEnabled got one
C20_Witness ==
    /\ result.op = "sendNotification" /\ result.userId = "u1"
    /\ result.type = "STATUS_UPDATE" /\ result.message = ""
    /\ notificationSettings["u1"].exists
    /\ notificationSettings["u1"].pushEnabled
    /\ notificationSettings["u1"].statusUpdates
    /\ \E n \in notifications : n.userId = "u1" /\ n.type = "STATUS_UPDATE"
    /\ \E n \in notifications : n.userId = "u2"

---------------------------------------------------------------------------
(* C21 *)

\* C21: in a process without Twilio credentials nothing is handed to Twilio
\* and nothing is raised: an authorized createAndSendCode by SMS persists its
\* rows and returns success=false with the send-error message; a
\* sendNotification whose SMS is due calls sendSMS, which sends nothing, and
\* goes on as without SMS (no error when no in-app row is due, the reminder
\* email still sent).
C21_NoSMSClient ==
    ~smsClient =>
        /\ (/\ result.op = "createAndSendCode" /\ result.method = "SMS"
            /\ result.message # MsgWait) =>
              /\ ~result.success
              /\ result.message = MsgSendError
              /\ \E c \in verificationCodes :
                    c.userId = result.userId /\ c.createdAt = result.at
                                             /\ c.method = "SMS"
              /\ \E a \in verificationAttempts :
                    a.userId = result.userId /\ a.sentAt = result.at
                                             /\ a.method = "SMS"
        /\ result.op = "sendNotification" =>
              LET settings == notificationSettings[result.userId]
              IN  /\ \A i \in 1..Len(result.sms) : ~result.sms[i].client
                  /\ (settings.exists /\ ~settings.pushEnabled) => result.message = ""
                  /\ (/\ result.message = "" /\ settings.exists /\ settings.emailEnabled
                      /\ result.type = "INTERVIEW_REMINDER") => Len(result.emails) = 1

\* without credentials, a code was asked for by SMS and then a deadline alert
\* whose SMS was due was dispatched
C21_Witness ==
    /\ ~smsClient
    /\ \E a \in verificationAttempts : a.method = "SMS"
    /\ result.op = "sendNotification" /\ result.type = "DEADLINE_ALERT"
    /\ result.message = ""
    /\ Len(result.sms) = 1
    /\ notificationSettings["u1"].smsEnabled
    /\ notificationSettings["u1"].phoneNumber # NoPhone
    /\ notifications # {}

---------------------------------------------------------------------------
(* C22 *)

\* a register call that answers 201
RegisterCall ==
    /\ response'.endpoint = "register" /\ response'.status = 201
    /\ users' # users

\* C22: a successful register call leaves the new user with a
\* notification_settings row holding the column defaults (all channels and
\* categories on but SMS, offsets 1440/60/15).
C22_RegisterCreatesSettings ==
    [][ RegisterCall => notificationSettings'[response'.userId] = DefaultSettings ]_vars

---------------------------------------------------------------------------
(* C23 *)

\* the call has inserted its code row
HasCreated(i) == calls[i].codeId # 0

\* no updateMany has run over the code row of call i
NotInvalidated(i) == \A k \in DOMAIN calls : calls[i].codeId \notin calls[k].seen

\* two calls of one (userId, type) whose updateMany both ran before either
\* create, and whose rows no later call has invalidated
BothBeforeCreate(i, j) ==
    /\ i # j
    /\ SameKey(calls[i].data, calls[j].data)
    /\ HasCreated(i) /\ HasCreated(j)
    /\ NotInvalidated(i) /\ NotInvalidated(j)

ActiveRowsOf(data) == {c \in verificationCodes : SameKey(c, data) /\ Active(c)}

\* C23: when two createAndSendCode calls of one (userId, type) both run their
\* invalidating updateMany before either runs its create, the store then holds
\* their two code rows both unused, and both active until the first of them
\* expires.
C23_TwoActiveCodes ==
    \A i, j \in DOMAIN calls :
        BothBeforeCreate(i, j) =>
            \E c, d \in verificationCodes :
                /\ c.id = calls[i].codeId /\ d.id = calls[j].codeId /\ c # d
                /\ ~c.isUsed /\ ~d.isUsed
                /\ now < Min(c.expiresAt, d.expiresAt) =>
                      /\ {c, d} \subseteq ActiveRowsOf(calls[i].data)
                      /\ Cardinality(ActiveRowsOf(calls[i].data)) >= 2

\* two calls have interleaved that way, over the same tuple
C23_Witness ==
    \E i, j \in DOMAIN calls :
        /\ BothBeforeCreate(i, j)
        /\ calls[i].data = calls[j].data
        /\ calls[i].pc = "done" /\ calls[j].pc = "done"
        /\ Cardinality(ActiveRowsOf(calls[i].data)) = 2

---------------------------------------------------------------------------
(* C28 *)

\* attempts persisted for the tuple of `data` at instant t
AuthorizedAt(data, t) ==
    {a \in verificationAttempts :
        SameTuple(a, data.userId, data.type, data.method, data.target) /\ a.sentAt = t}

\* C28: of the createAndSendCode calls made for one tuple at one instant, at
\* most one is authorized (persists a code and an attempt).
C28_OneAuthorized ==
    \A data \in RaceRequests : Cardinality(AuthorizedAt(data, now)) <= 1

---------------------------------------------------------------------------
(* C24 *)

Offsets(settings) == {ReminderTimings(settings)[k] : k \in 1..3}

\* the window of offset o meets the window of no other configured offset
WindowApart(o, settings) ==
    \A p \in Offsets(settings) : p # o => Abs(p - o) > 2 * ReminderTolerance

\* the reminders sent for interview i at a tick that matched offset o
RemindersFor(i, o) ==
    {s \in sent : /\ s.job = "interviewReminders" /\ s.id = i.id
                  /\ Abs(s.value - o) <= ReminderTolerance}

\* C24: once an interview of a user with interviewReminders enabled has
\* started, the 15-minute job has sent exactly one reminder for each configured
\* offset whose window meets no other window; every reminder sent matched an
\* offset, and no tick sent two for one interview.
C24_OneReminderPerOffset ==
    \A i \in interviews :
        (WantsReminders(i.userId) /\ now >= i.scheduledAt) =>
            LET settings == notificationSettings[i.userId]
            IN  /\ \A o \in Offsets(settings) :
                      WindowApart(o, settings) => Cardinality(RemindersFor(i, o)) = 1
                /\ \A s \in sent :
                      s.id = i.id => \E o \in Offsets(settings) : s \in RemindersFor(i, o)
                /\ \A s, t \in sent : (s.id = i.id /\ t.id = i.id /\ s.at = t.at) => s = t

---------------------------------------------------------------------------
(* C25 *)

\* the daily ticks whose job has run
FollowUpTicks ==
    {t \in 0..now :
        /\ t % DayMinutes = FollowUpHour
        /\ (t = now => (result.op = "checkApplicationFollowUps" /\ result.at = now))}

FollowedUp(a, t) ==
    \E s \in sent : s.job = "applicationFollowUps" /\ s.id = a.id /\ s.at = t

\* the user has not switched the follow-ups off
FollowUpsOn(userId) ==
    ~notificationSettings[userId].exists \/ notificationSettings[userId].applicationFollowUps

\* C25: an application gets a follow-up at a daily tick exactly when its
\* status is APPLIED or UNDER_REVIEW and floor(days since appliedAt) is 7, 14,
\* 21, ... at that tick.
C25_FollowUpEvery7Days ==
    \A a \in applications : \A t \in FollowUpTicks :
        FollowUpsOn(a.userId) =>
            (FollowedUp(a, t) <=>
                /\ a.status \in {"APPLIED", "UNDER_REVIEW"}
                /\ DaysSince(a, t) >= FollowUpDays
                /\ DaysSince(a, t) % FollowUpDays = 0)

---------------------------------------------------------------------------
(* C26 *)

\* C26: whatever the account behind the address (none, disabled, in its
\* cool-down, code sent, sending failed), forgotPassword answers 200 with the
\* one body that is built from the submitted address alone.
C26_SameAnswer ==
    response.endpoint = "forgotPassword" =>
        /\ response = SuccessResponse(response.email)
        /\ response.status = 200 /\ response.code = ""
        /\ response.userId = "" /\ response.token = ""

\* a disabled account, never asked about while it was active, has been
\* answered after a request for an active account was refused by the cool-down
C26_Witness ==
    /\ response.endpoint = "forgotPassword" /\ response.email = "u2@mail"
    /\ \E u \in users : u.email = "u2@mail" /\ ~u.isActive
    /\ \A a \in verificationAttempts : a.userId = "u1"
    /\ result.op = "createAndSendCode" /\ result.message = MsgWait
    /\ result.userId = "u1" /\ result.at = now

---------------------------------------------------------------------------
(* C27 *)

\* C27: a token for a user with 2FA enabled is answered only after a login
\* call has accepted that user's password.
C27_TokenAfterPassword ==
    \A u \in users :
        (u.enabled2FA /\ response.token = Token(u)) => u.id \in passwordChecked

---------------------------------------------------------------------------
(* C29 *)

\* an authorized createAndSendCode call
AuthorizedCall ==
    /\ result'.op = "createAndSendCode" /\ now' = now
    /\ verificationAttempts' # verificationAttempts

\* the tuple of the call
CalledTuple ==
    [userId |-> result'.userId, type |-> result'.type, method |-> result'.method,
     target |-> result'.target]

\* C29: an authorized call for tuple A changes neither what canSendCode
\* answers nor the 24-hour count for any other tuple B, and leaves every code
\* of A's (userId, type) that was active, whatever its method and target, used.
C29_TupleScoped ==
    [][ AuthorizedCall =>
          /\ \A B \in TupleRequests \ {CalledTuple} :
                /\ CanSendCode(B.userId, B.type, B.method, B.target)'
                      = CanSendCode(B.userId, B.type, B.method, B.target)
                /\ AttemptCount(B.userId, B.type, B.method, B.target, now)'
                      = AttemptCount(B.userId, B.type, B.method, B.target, now)
          /\ \A c \in verificationCodes :
                (SameKey(c, CalledTuple) /\ Active(c)) =>
                    \E d \in verificationCodes' : d.id = c.id /\ d.isUsed
          /\ Cardinality(verificationCodes') = Cardinality(verificationCodes) + 1 ]_vars

\* a call by SMS has been authorized while the tuple of the same user and type
\* by email was in its cool-down, and it used up the code sent by email
C29_Witness ==
    /\ result.op = "createAndSendCode" /\ result.at = now /\ result.method = "SMS"
    /\ result.message # MsgWait
    /\ \E c \in verificationCodes :
          /\ c.userId = result.userId /\ c.type = result.type /\ c.method = "EMAIL"
          /\ c.isUsed /\ c.usedAt = NoDate /\ c.expiresAt > now
    /\ \E a \in verificationAttempts :
          /\ a.userId = result.userId /\ a.type = result.type /\ a.method = "EMAIL"
          /\ a.nextAllowedAt > now

---------------------------------------------------------------------------
(* C30 *)

\* C30: there is always a user with role ADMIN and isActive true.
C30_ActiveAdminRemains == ActiveAdminCount(users) >= 1

====
